---- MODULE Spec2Model ----
(***************************************************************************)
(* Face Sorter (app.py): the person registry of one group directory, its   *)
(* persistence (person_index.json), the prototype maintenance and the      *)
(* matching of a batch of cluster centroids against it.                    *)
(*                                                                         *)
(* float32 vectors are fixed-point pairs <<x, y>> in units of 1/Scale;     *)
(* similarities and thresholds are in hundredths (0.52 is 52).             *)
(* Python's None is the empty tuple; an optional number n is <<n>>.        *)
(***************************************************************************)
EXTENDS Integers, Sequences, FiniteSets, TLC

\* ------------------------------------------------------------------ bounds
MaxCand == 2        \* candidates processed over all invocations of a run of the model
MaxEnv == 1         \* folders deleted or created by hand
MaxObs == 7         \* observation_count reached in SpecProto
MaxSaves == 1       \* saves each concurrent writer makes in SpecSave
MaxDirs == 2        \* target directories of one press of the process button
MaxTasks == 3       \* rows of the Task table
MaxRecs == 1        \* records of a registry file given to load_person_index alone
MaxStaff == 4       \* rows the Employee table ever held

\* ------------------------------------------------------- program constants
Scale == 10         \* fixed-point unit of a normalized float32 component
MatchThr == 52      \* CFG["match_thr"]
Top2Margin == 8     \* CFG["top2_margin"]
KMax == 5           \* k_max
EmaNum == 9         \* ema_alpha = EmaNum / EmaDen
EmaDen == 10

None == <<>>

\* ------------------------------------------------------------- vector math
\* floor of the square root of n, searched in lo..hi
RECURSIVE ISqrtIn(_, _, _)
ISqrtIn(n, lo, hi) ==
    IF lo >= hi THEN lo
    ELSE LET mid == (lo + hi + 1) \div 2
         IN  IF mid * mid <= n THEN ISqrtIn(n, mid, hi) ELSE ISqrtIn(n, lo, mid - 1)

\* round(Scale * c / sqrt(q)), q the squared norm of the vector c belongs to
UnitComp(c, q) ==
    LET r == (ISqrtIn((4 * Scale * Scale * c * c) \div q, 0, 2 * Scale) + 1) \div 2
    IN  IF c < 0 THEN -r ELSE r

\* _normalize_np: arr / (norm + 1e-12); the zero vector stays zero
Normalize(v) ==
    LET q == v[1] * v[1] + v[2] * v[2]
    IN  IF q = 0 THEN <<0, 0>> ELSE <<UnitComp(v[1], q), UnitComp(v[2], q)>>

Dot(a, b) == a[1] * b[1] + a[2] * b[2]

\* one entry of P @ c, in hundredths
Sim(a, b) == (Dot(a, b) * 100) \div (Scale * Scale)

\* np.argmax: the first index of the largest entry
ArgMax(f, n) ==
    CHOOSE i \in 1..n : /\ \A j \in 1..n : f[j] <= f[i]
                        /\ \A j \in 1..(i - 1) : f[j] < f[i]

\* the largest of a non-empty set of integers
MaxOf(S) == CHOOSE m \in S : \A x \in S : x <= m

\* ---------------------------------------------------- prototype maintenance
NegInf == -1000000  \* -np.inf

SeqSum(f, n) == LET RECURSIVE S(_)
                    S(i) == IF i = 0 THEN 0 ELSE f[i] + S(i - 1)
                IN  S(n)

\* d0 = norm(X - X.mean(0)), compared through n^2 times its square
MeanDist(X) ==
    LET n  == Len(X)
        sx == SeqSum([i \in 1..n |-> X[i][1]], n)
        sy == SeqSum([i \in 1..n |-> X[i][2]], n)
    IN  [i \in 1..n |-> (n * X[i][1] - sx) * (n * X[i][1] - sx)
                        + (n * X[i][2] - sy) * (n * X[i][2] - sy)]

InSeq(x, s) == \E i \in 1..Len(s) : s[i] = x

\* dists = 1 - max(X @ X[keep].T), the kept rows at -inf
KeepDists(X, keep) ==
    [i \in 1..Len(X) |->
        IF InSeq(i, keep) THEN NegInf
        ELSE Scale * Scale - MaxOf({Dot(X[i], X[keep[k]]) : k \in 1..Len(keep)})]

\* the while loop of the farthest-point selection
RECURSIVE GreedyKeep(_, _, _)
GreedyKeep(X, keep, k_max) ==
    IF Len(keep) < k_max /\ Len(keep) < Len(X)
    THEN LET dists == KeepDists(X, keep)
             cand  == ArgMax(dists, Len(X))
         IN  IF dists[cand] = NegInf THEN keep
             ELSE GreedyKeep(X, Append(keep, cand), k_max)
    ELSE keep

Min2(a, b) == IF a < b THEN a ELSE b

\* the fallback: fill with the rows left, in index order
RECURSIVE FillKeep(_, _, _, _)
FillKeep(X, keep, k_max, i) ==
    IF i > Len(X) THEN keep
    ELSE LET k2 == IF InSeq(i, keep) THEN keep ELSE Append(keep, i)
         IN  IF Len(k2) >= Min2(k_max, Len(X)) THEN k2
             ELSE FillKeep(X, k2, k_max, i + 1)

\* the branch len(protos) > k_max: the rows kept, renormalized
ReduceProtos(protos, k_max) ==
    LET X    == [i \in 1..Len(protos) |-> Normalize(protos[i])]
        k0   == <<ArgMax(MeanDist(X), Len(X))>>
        k1   == GreedyKeep(X, k0, k_max)
        keep == IF Len(k1) < Min2(k_max, Len(X)) THEN FillKeep(X, k1, k_max, 1) ELSE k1
    IN  [j \in 1..Len(keep) |-> X[keep[j]]]

\* normalize(ema_alpha * ema + (1 - ema_alpha) * normalize(new_vec))
EmaStep(ema, nv) ==
    Normalize(<<EmaNum * ema[1] + (EmaDen - EmaNum) * nv[1],
                EmaNum * ema[2] + (EmaDen - EmaNum) * nv[2]>>)

SetKeys(p, q) == [k \in DOMAIN p \cup DOMAIN q |-> IF k \in DOMAIN q THEN q[k] ELSE p[k]]

\* _update_person_proto(person, new_vec, k_max), without side effects
UpdatePersonProtoK(person, new_vec, k_max) ==
    LET nv     == Normalize(new_vec)
        have   == IF "protos" \in DOMAIN person THEN person.protos ELSE <<>>
        all    == Append(have, nv)
        protos == IF Len(all) > k_max THEN ReduceProtos(all, k_max) ELSE all
        ema    == IF "ema" \in DOMAIN person /\ person.ema # None
                  THEN person.ema ELSE protos[1]
        count  == IF "count" \in DOMAIN person THEN person.count ELSE 0
    IN  SetKeys(person, [protos |-> protos,
                         ema    |-> EmaStep(Normalize(ema), nv),
                         count  |-> count + 1])

\* the reduction entered one prototype late
UpdatePersonProtoLate(person, new_vec) == UpdatePersonProtoK(person, new_vec, KMax + 1)

\* observation_count started anew at each update
UpdatePersonProtoReset(person, new_vec) ==
    SetKeys(UpdatePersonProtoK(person, new_vec, KMax), [count |-> 1])

\* _update_person_proto with the default k_max, as match_and_apply calls it
UpdatePersonProto(person, new_vec) == UpdatePersonProtoK(person, new_vec, KMax)

\* ------------------------------------------------------------ persistence
PersonIndex == "person_index.json"
GlobalIndex == "global_index.json"

\* path.with_suffix(path.suffix + ".tmp")
TmpOf(path) == IF path = PersonIndex THEN "person_index.json.tmp" ELSE "global_index.json.tmp"

Paths == {PersonIndex, GlobalIndex, TmpOf(PersonIndex), TmpOf(GlobalIndex)}

\* a file: whether the path exists, the text written so far (a sequence of
\* chunks) and the writers that hold it open
Absent == [exists |-> FALSE, text |-> <<>>, openBy |-> {}]
FileOf(text) == [exists |-> TRUE, text |-> text, openBy |-> {}]

Tok(t, p) == [t |-> t, p |-> p]

\* json.dumps({"persons": persons}): one chunk per bracket and per record
Dumps(persons) ==
    <<Tok("{", None)>> \o [i \in 1..Len(persons) |-> Tok("p", <<persons[i]>>)] \o <<Tok("}", None)>>

\* json.loads: ok is FALSE where it raises; a text that is valid JSON but
\* no object (the chunk "[]") parses to a value without .get
Loads(text) ==
    LET n == Len(text)
    IN  IF n = 1 /\ text[1].t = "[]"
        THEN [ok |-> TRUE, dict |-> FALSE, persons |-> <<>>]
        ELSE IF /\ n >= 2
                /\ text[1].t = "{"
                /\ text[n].t = "}"
                /\ \A i \in 2..(n - 1) : text[i].t = "p"
        THEN [ok |-> TRUE, dict |-> TRUE, persons |-> [i \in 1..(n - 2) |-> text[i + 1].p[1]]]
        ELSE [ok |-> FALSE, dict |-> FALSE, persons |-> <<>>]

\* _atomic_write run without interleaving: tmp written whole, then renamed
AtomicWrite(files, path, text) ==
    [files EXCEPT ![path] = FileOf(text), ![TmpOf(path)] = Absent]

DropKey(p, key) == [k \in DOMAIN p \ {key} |-> p[k]]

MigrateProtos(p) ==
    IF "protos" \in DOMAIN p THEN p
    ELSE IF "proto" \in DOMAIN p
         THEN SetKeys(DropKey(p, "proto"), [protos |-> <<p.proto>>])
         ELSE SetKeys(p, [protos |-> <<>>])

MigrateEma(p) ==
    IF "ema" \in DOMAIN p THEN p
    ELSE SetKeys(p, [ema |-> IF p.protos # <<>> THEN p.protos[1] ELSE None])

\* the count defaulted to the number of prototypes, zero included
MigrateCountLen(p) ==
    IF "count" \in DOMAIN p THEN p ELSE SetKeys(p, [count |-> Len(p.protos)])

MigrateCount(p) ==
    IF "count" \in DOMAIN p THEN p
    ELSE SetKeys(p, [count |-> IF Len(p.protos) > 1 THEN Len(p.protos) ELSE 1])

MigrateThr(p) ==
    IF "thr" \in DOMAIN p THEN p ELSE SetKeys(p, [thr |-> None])

\* the body of the migration loop for one person
MigratePerson(p) == MigrateThr(MigrateCount(MigrateEma(MigrateProtos(p))))

NeedsMigration(p) == {"protos", "ema", "count", "thr"} \ DOMAIN p # {}

\* load_person_index letting the parse error of json.loads through
LoadPersonIndexStrict(files) ==
    LET f    == files[PersonIndex]
        data == Loads(f.text)
    IN  IF ~f.exists
        THEN [raised |-> FALSE, persons |-> <<>>, changed |-> FALSE, files |-> files]
        ELSE IF ~data.ok \/ ~data.dict
        THEN [raised |-> TRUE, persons |-> <<>>, changed |-> FALSE, files |-> files]
        ELSE LET persons == [i \in 1..Len(data.persons) |-> MigratePerson(data.persons[i])]
                 changed == \E i \in 1..Len(data.persons) : NeedsMigration(data.persons[i])
             IN  [raised  |-> FALSE,
                  persons |-> persons,
                  changed |-> changed,
                  files   |-> IF changed THEN AtomicWrite(files, PersonIndex, Dumps(persons))
                              ELSE files]

\* load_person_index: raised is TRUE where an exception leaves the function
LoadPersonIndex(files) ==
    LET f    == files[PersonIndex]
        data == Loads(f.text)
    IN  IF ~f.exists \/ ~data.ok
        THEN [raised |-> FALSE, persons |-> <<>>, changed |-> FALSE, files |-> files]
        ELSE IF ~data.dict
        THEN [raised |-> TRUE, persons |-> <<>>, changed |-> FALSE, files |-> files]
        ELSE LET persons == [i \in 1..Len(data.persons) |-> MigratePerson(data.persons[i])]
                 changed == \E i \in 1..Len(data.persons) : NeedsMigration(data.persons[i])
             IN  [raised  |-> FALSE,
                  persons |-> persons,
                  changed |-> changed,
                  files   |-> IF changed THEN AtomicWrite(files, PersonIndex, Dumps(persons))
                              ELSE files]

\* save_person_index
SavePersonIndex(files, data) == AtomicWrite(files, PersonIndex, Dumps(data))

\* one access to person_index.json, made when the loop over eligible had
\* been through `at` candidates
Access(op, at) == [op |-> op, at |-> at]

\* load_person_index that writes the file back whether or not a record
\* lacked a field
LoadAccessesAlways(files) == <<Access("read", 0), Access("write", 0)>>

\* the accesses load_person_index makes: the read (p.exists and read_text),
\* then the write of the migration when a record lacked a field
LoadAccesses(files) ==
    IF LoadPersonIndex(files).changed
    THEN <<Access("read", 0), Access("write", 0)>>
    ELSE <<Access("read", 0)>>

\* ---------------------------------------------------------------- matching
\* the rows of P with their owners: for each person its protos, or its ema
\* when it has no protos
PersonRows(p) ==
    LET protos == IF p.protos # <<>> THEN p.protos
                  ELSE IF p.ema # None THEN <<p.ema>> ELSE <<>>
    IN  [i \in 1..Len(protos) |-> [owner |-> p.number, v |-> Normalize(protos[i])]]

RECURSIVE ProtoRows(_)
ProtoRows(persons) ==
    IF persons = <<>> THEN <<>>
    ELSE PersonRows(Head(persons)) \o ProtoRows(Tail(persons))

\* per_thr: the threshold of the last person of each number that has one
PerThr(persons) ==
    LET nums == {persons[i].number : i \in {j \in 1..Len(persons) : persons[j].thr # None}}
    IN  [n \in nums |->
            LET last == MaxOf({j \in 1..Len(persons) :
                                  persons[j].number = n /\ persons[j].thr # None})
            IN  persons[last].thr[1]]

\* per_person_scores: the best similarity of each owner
PersonScores(rows, c) ==
    [o \in {rows[i].owner : i \in 1..Len(rows)} |->
        MaxOf({Sim(rows[i].v, c) : i \in {j \in 1..Len(rows) : rows[j].owner = o}})]

\* sorted_pairs[0] and sorted_pairs[1][1]: the sort is stable, so among
\* equal scores the owner met first in the rows comes first
TopTwo(rows, c) ==
    LET sc    == PersonScores(rows, c)
        s1    == MaxOf({sc[o] : o \in DOMAIN sc})
        first == CHOOSE i \in 1..Len(rows) :
                    /\ sc[rows[i].owner] = s1
                    /\ \A j \in 1..(i - 1) : sc[rows[j].owner] < s1
        best  == rows[first].owner
        rest  == {sc[o] : o \in DOMAIN sc \ {best}}
    IN  [best_num |-> best, s1 |-> s1, s2 |-> IF rest = {} THEN -100 ELSE MaxOf(rest)]

\* thr_use with the person's threshold replacing the global one
ThrUseOverride(match_thr, thrs, best_num) ==
    IF best_num \in DOMAIN thrs THEN thrs[best_num] ELSE match_thr

\* thr_use
ThrUse(match_thr, thrs, best_num) ==
    IF best_num \in DOMAIN thrs /\ thrs[best_num] > match_thr THEN thrs[best_num]
    ELSE match_thr

\* the acceptance test without the top-2 margin
AcceptsNoMargin(top, thr_use, top2_margin) == top.s1 >= thr_use

\* the condition of line 428
Accepts(top, thr_use, top2_margin) ==
    top.s1 >= thr_use /\ top.s1 - top.s2 >= top2_margin

\* a new person's record without the key "thr"
NewPersonNoThr(number, c) ==
    [number |-> number, protos |-> <<c>>, ema |-> c, count |-> 1]

\* the record appended for a new person
NewPerson(number, c) ==
    [number |-> number, protos |-> <<c>>, ema |-> c, count |-> 1, thr |-> None]

\* for p in persons: if p.number == best_num: _update_person_proto(p, c); break
UpdateFirst(persons, best_num, c) ==
    LET hits == {i \in 1..Len(persons) : persons[i].number = best_num}
    IN  IF hits = {} THEN persons
        ELSE LET i == CHOOSE x \in hits : \A y \in hits : x <= y
             IN  [persons EXCEPT ![i] = UpdatePersonProto(persons[i], c)]

\* ------------------------------------------------------------------- state
VARIABLES
    fs,             \* the files of the group directory and its parent, by path
    folders,        \* the numbered person folders of the group directory
    pc,             \* where the invocation of match_and_apply stands
    raised,         \* the exception that ended it, "" if none
    plan,           \* its plan: eligible_clusters and cluster_centroids
    persons,        \* its in-memory list of persons
    loaded,         \* the persons load_person_index returned to it
    centroids_norm, \* cluster id -> normalized centroid
    rows,           \* P with proto_owner, built before the loop
    per_thr,        \* person number -> custom threshold
    cur_max,        \* the running maximum of the person numbers
    k,              \* index in eligible of the next candidate
    assigned,       \* cluster id -> number of the person matched
    new_nums,       \* cluster id -> number of the person minted
    minted,         \* every number minted so far, in order
    deleted,        \* whether a person folder was deleted by hand
    nCand,          \* candidates handed to match_and_apply so far
    nEnv,           \* folders deleted or created by hand so far
    io,             \* the accesses of the invocation to person_index.json, in order
    FileLock,       \* whether the filelock package was imported
    lockedBy,       \* the writers inside "with lock" on global_index.json.lock
    wr,             \* the concurrent writers: their call and how far it got
    seen,           \* what the concurrent reader last read in person_index.json
    queue,          \* st.session_state["queue"]: the target directories
    gk,             \* the process loop's index in targets
    rpc,            \* where the handler of the process button stands
    built,          \* the plan build_plan returned for the current target
    idx,            \* the global index held by the handler: group_counts, saved
    proc_logs,      \* the messages shown for each target, in order
    twin,           \* the inputs and the result of an invocation that is run again
    tasks,          \* the rows of the Task table, by id
    employees,      \* the rows of the Employee table, by id
    resp,           \* the outcome of the last operation on the tables
    loads,          \* what each successive load_person_index did, in order
    deps,           \* the rows of TaskDependency: pairs <<predecessor, successor>>
    users,          \* the usernames of the rows of User
    sources,        \* the source images present in the processed directory
    copied,         \* the images the last invocation copied into a destination
    processed       \* processed_sources of the last invocation

seq  == <<folders, pc, raised, plan, persons, loaded, centroids_norm, rows, per_thr,
          cur_max, k, assigned, new_nums, minted, deleted, nCand, nEnv, io>>

conc == <<FileLock, lockedBy, wr, seen>>

ui == <<queue, gk, rpc, built, idx, proc_logs>>

web == <<tasks, employees, resp>>

extra == <<loads, deps, users, sources, copied, processed>>

others == <<ui, twin, web, extra>>

vars == <<fs, seq, conc, others>>

local == <<plan, persons, loaded, centroids_norm, rows, per_thr, cur_max, k,
           assigned, new_nums>>

\* ------------------------------------------------------------------ inputs
VecA == <<1, 0>>
VecB == <<0, 1>>

\* a centroid of the plan: a vector, or a value np.array(.., float32) rejects
Vec(v) == [ok |-> TRUE, v |-> v]
BadCentroid == [ok |-> FALSE, v |-> <<0, 0>>]

CentroidValues == {Vec(<<1, 2>>), Vec(<<1, -2>>), Vec(<<1, 1>>), BadCentroid}

\* the plans of n clusters 1..n, each with a centroid or none
PlanSet(n) ==
    {[eligible |-> [i \in 1..n |-> i], centroids |-> c] :
        c \in UNION {[D -> CentroidValues] : D \in SUBSET (1..n)}}

EmptyPlan == [eligible |-> <<>>, centroids |-> <<>>]

Person(number, protos, ema, count, thr) ==
    [number |-> number, protos |-> protos, ema |-> ema, count |-> count, thr |-> thr]

\* the directories a run of the model starts from: the registry file and
\* the numbered folders beside it
SeedDirs ==
    { [text |-> <<>>, exists |-> FALSE, folders |-> {}],
      [text |-> Dumps(<<Person(1, <<Normalize(VecA)>>, Normalize(VecA), 1, None),
                        Person(2, <<Normalize(VecB)>>, Normalize(VecB), 1, <<85>>)>>),
       exists |-> TRUE, folders |-> {1, 2}],
      [text |-> Dumps(<<Person(1, <<Normalize(VecA)>>, Normalize(VecA), 1, <<40>>),
                        Person(2, <<Normalize(VecB)>>, Normalize(VecB), 1, <<95>>)>>),
       exists |-> TRUE, folders |-> {1, 2}],
      [text |-> Dumps(<<[number |-> 1, proto |-> Normalize(VecA)],
                        Person(2, <<>>, Normalize(VecB), 3, None)>>),
       exists |-> TRUE, folders |-> {1, 2}],
      [text |-> <<Tok("{", None), Tok("p", <<Person(1, <<Normalize(VecA)>>, Normalize(VecA), 1, None)>>)>>,
       exists |-> TRUE, folders |-> {1}],
      [text |-> <<Tok("[]", None)>>, exists |-> TRUE, folders |-> {}] }

\* ------------------------------------------------------------------- Init
\* no invocation has run
Quiet ==
    /\ pc = "idle"
    /\ raised = ""
    /\ plan = EmptyPlan
    /\ loaded = <<>>
    /\ centroids_norm = <<>>
    /\ rows = <<>>
    /\ per_thr = <<>>
    /\ cur_max = 0
    /\ k = 1
    /\ assigned = <<>>
    /\ new_nums = <<>>
    /\ minted = <<>>
    /\ deleted = FALSE
    /\ nCand = 0
    /\ nEnv = 0
    /\ io = <<>>

Writers == {1, 2}

\* a writer that has not called yet
IdleWriter == [pc |-> "idle", path |-> PersonIndex, text |-> <<>>, pos |-> 0, saves |-> 0]

\* no concurrent writer or reader is at work
NoWriters ==
    /\ lockedBy = {}
    /\ wr = [w \in Writers |-> IdleWriter]
    /\ seen = Absent

\* the process button has not been pressed
NoRun ==
    /\ queue = <<>>
    /\ gk = 0
    /\ rpc = "idle"
    /\ built = EmptyPlan
    /\ idx = [group_counts |-> <<>>, saved |-> FALSE]
    /\ proc_logs = <<>>

\* the tables are empty and nothing has been asked of them
NoWeb ==
    /\ tasks = <<>>
    /\ employees = <<>>
    /\ resp = None

\* nothing was loaded, saved or asked outside the invocations
NoExtra ==
    /\ loads = <<>>
    /\ deps = {}
    /\ users = {}
    /\ sources = {}
    /\ copied = {}
    /\ processed = {}

\* nothing but the sequential invocations and the concurrent writers is at work
Elsewhere == NoRun /\ twin = None /\ NoWeb /\ NoExtra

Init ==
    /\ \E d \in SeedDirs :
         /\ fs = [p \in Paths |-> IF p = PersonIndex /\ d.exists THEN FileOf(d.text) ELSE Absent]
         /\ folders = d.folders
    /\ persons = <<>>
    /\ Quiet
    /\ FileLock = TRUE
    /\ NoWriters
    /\ Elsewhere

\* ----------------------------------------------------------- match_and_apply
Range(f) == {f[x] : x \in DOMAIN f}

\* the first folder number in place of the last
CurMaxFirst(dirs) == IF dirs = {} THEN 0 ELSE CHOOSE m \in dirs : \A x \in dirs : m <= x

\* a counter that outlives the invocation
CurMaxKept(dirs) == IF dirs = {} THEN cur_max ELSE MaxOf(dirs \cup {cur_max})

\* existing_nums[-1] if existing_nums else 0
CurMax(dirs) == IF dirs = {} THEN 0 ELSE MaxOf(dirs)

\* lines 367-408: load the registry, normalize the centroids, build P and
\* per_thr, list the numbered folders.  A centroid numpy rejects raises in
\* the normalization loop, after the load.
Begin(pl) ==
    /\ pc \in {"idle", "done", "failed"}
    /\ LET ld  == LoadPersonIndex(fs)
           bad == \E cid \in DOMAIN pl.centroids : ~pl.centroids[cid].ok
       IN  /\ fs' = ld.files
           /\ plan' = pl
           /\ persons' = ld.persons
           /\ loaded' = ld.persons
           /\ IF ld.raised \/ bad
              THEN /\ pc' = "failed"
                   /\ raised' = IF ld.raised THEN "AttributeError" ELSE "ValueError"
                   /\ centroids_norm' = <<>>
                   /\ rows' = <<>>
                   /\ per_thr' = <<>>
                   /\ cur_max' = 0
              ELSE /\ pc' = "match"
                   /\ raised' = ""
                   /\ centroids_norm' = [cid \in DOMAIN pl.centroids |->
                                            Normalize(pl.centroids[cid].v)]
                   /\ rows' = ProtoRows(ld.persons)
                   /\ per_thr' = PerThr(ld.persons)
                   /\ cur_max' = CurMax(folders)
    /\ k' = 1
    /\ assigned' = <<>>
    /\ new_nums' = <<>>
    /\ nCand' = nCand + Len(pl.eligible)
    /\ io' = LoadAccesses(fs)
    /\ UNCHANGED <<folders, minted, deleted, nEnv>>
    /\ UNCHANGED <<conc, others>>

\* a new person numbered cur_max + 1, with cur_max left as it was
MintStale(cid, c) ==
    /\ cur_max' = cur_max
    /\ new_nums' = (cid :> (cur_max + 1)) @@ new_nums
    /\ persons' = Append(persons, NewPerson(cur_max + 1, c))
    /\ minted' = Append(minted, cur_max + 1)
    /\ UNCHANGED assigned

\* lines 434-441: a new person numbered cur_max + 1
Mint(cid, c) ==
    /\ cur_max' = cur_max + 1
    /\ new_nums' = (cid :> (cur_max + 1)) @@ new_nums
    /\ persons' = Append(persons, NewPerson(cur_max + 1, c))
    /\ minted' = Append(minted, cur_max + 1)
    /\ UNCHANGED assigned

\* lines 428-433: the candidate goes to best_num
Assign(cid, c, best_num) ==
    /\ assigned' = (cid :> best_num) @@ assigned
    /\ persons' = UpdateFirst(persons, best_num, c)
    /\ UNCHANGED <<cur_max, new_nums, minted>>

\* the matrix the loop matches against: P as built before the loop, whatever
\* the loop has appended to persons since
MatchRows(P, people) == P

\* lines 410-441: one iteration of the loop over eligible
MatchStep ==
    /\ pc = "match"
    /\ k <= Len(plan.eligible)
    /\ LET cid == plan.eligible[k]
       IN  IF cid \notin DOMAIN centroids_norm
           THEN UNCHANGED <<persons, cur_max, assigned, new_nums, minted>>
           ELSE LET c == centroids_norm[cid]
                IN  IF MatchRows(rows, persons) # <<>>
                    THEN LET top == TopTwo(MatchRows(rows, persons), c)
                         IN  IF Accepts(top, ThrUse(MatchThr, per_thr, top.best_num), Top2Margin)
                             THEN Assign(cid, c, top.best_num)
                             ELSE Mint(cid, c)
                    ELSE Mint(cid, c)
    /\ k' = k + 1
    /\ UNCHANGED <<fs, folders, pc, raised, plan, loaded, centroids_norm, rows, per_thr,
                   deleted, nCand, nEnv, io>>
    /\ UNCHANGED <<conc, others>>

\* lines 443-444: ensure_dir for every number assigned or minted
EnsureDirs ==
    /\ pc = "match"
    /\ k > Len(plan.eligible)
    /\ folders' = folders \cup Range(assigned) \cup Range(new_nums)
    /\ pc' = "save"
    /\ UNCHANGED <<fs, raised, minted, deleted, nCand, nEnv, io>>
    /\ UNCHANGED <<local, conc, others>>

\* lines 496-497: save_person_index, then return
Save ==
    /\ pc = "save"
    /\ fs' = SavePersonIndex(fs, persons)
    /\ pc' = "done"
    /\ io' = Append(io, Access("write", k - 1))
    /\ UNCHANGED <<folders, raised, minted, deleted, nCand, nEnv>>
    /\ UNCHANGED <<local, conc, others>>

\* ------------------------------------------------------------- environment
\* the user deletes a numbered folder between two invocations
DeleteFolder(n) ==
    /\ pc \in {"idle", "done", "failed"}
    /\ nEnv < MaxEnv
    /\ n \in folders
    /\ folders' = folders \ {n}
    /\ deleted' = TRUE
    /\ nEnv' = nEnv + 1
    /\ UNCHANGED <<fs, pc, raised, minted, nCand, io>>
    /\ UNCHANGED <<local, conc, others>>

\* the user creates a numbered folder between two invocations
CreateFolder(n) ==
    /\ pc \in {"idle", "done", "failed"}
    /\ nEnv < MaxEnv
    /\ n \notin folders
    /\ folders' = folders \cup {n}
    /\ nEnv' = nEnv + 1
    /\ UNCHANGED <<fs, pc, raised, minted, deleted, nCand, io>>
    /\ UNCHANGED <<local, conc, others>>

\* the folder numbers a user may pick: up to one past the highest in use
FolderNames == 1..((IF folders = {} THEN 0 ELSE MaxOf(folders)) + 1)

Next ==
    \/ \E n \in 0..(MaxCand - nCand) : \E pl \in PlanSet(n) : Begin(pl)
    \/ MatchStep
    \/ EnsureDirs
    \/ Save
    \/ \E n \in folders : DeleteFolder(n)
    \/ \E n \in FolderNames : CreateFolder(n)

Spec == Init /\ [][Next]_vars

\* the directories whose registry holds records without any prototype, with
\* or without a running average
ZeroProtoDirs ==
    {[text |-> Dumps(<<Person(1, <<>>, e1, 1, None), Person(2, <<>>, e2, 2, None)>>),
      exists |-> TRUE, folders |-> {1, 2}] :
        e1, e2 \in {None, Normalize(VecA), Normalize(VecB)}}

InitZero ==
    /\ \E d \in ZeroProtoDirs :
         /\ fs = [p \in Paths |-> IF p = PersonIndex THEN FileOf(d.text) ELSE Absent]
         /\ folders = d.folders
    /\ persons = <<>>
    /\ Quiet
    /\ FileLock = TRUE
    /\ NoWriters
    /\ Elsewhere

SpecZero == InitZero /\ [][Next]_vars

\* ------------------------------------------- _update_person_proto, repeated
\* the vectors folded into the record
UpdateVecs == {<<1, 0>>, <<0, 1>>, <<1, 1>>, <<-1, 0>>}

\* the record the calls start from: one just minted, or one migrated with
\* no prototype and a running average
ProtoSeeds == {NewPerson(1, Normalize(VecA)), Person(1, <<>>, Normalize(VecB), 1, None)}

InitProto ==
    /\ fs = [p \in Paths |-> Absent]
    /\ folders = {}
    /\ \E p \in ProtoSeeds : persons = <<p>>
    /\ Quiet
    /\ FileLock = TRUE
    /\ NoWriters
    /\ Elsewhere

\* one call of _update_person_proto on the record
UpdateProto(v) ==
    /\ persons[1].count < MaxObs
    /\ persons' = <<UpdatePersonProto(persons[1], v)>>
    /\ UNCHANGED <<fs, folders, pc, raised, plan, loaded, centroids_norm, rows, per_thr,
                   cur_max, k, assigned, new_nums, minted, deleted, nCand, nEnv, io>>
    /\ UNCHANGED <<conc, others>>

NextProto == \E v \in UpdateVecs : UpdateProto(v)

SpecProto == InitProto /\ [][NextProto]_vars

\* ------------------------------------------- load_person_index, called twice
\* the records a registry file may hold: with protos, with the legacy proto
\* or with neither, and with or without ema, count and thr
LegacyRecords ==
    LET shapes == {[number |-> 1], [number |-> 1, proto |-> Normalize(VecA)],
                   [number |-> 1, protos |-> <<>>],
                   [number |-> 1, protos |-> <<Normalize(VecA)>>],
                   [number |-> 1, protos |-> <<Normalize(VecA), Normalize(VecB)>>]}
        emas   == {<<>>, <<None>>, <<Normalize(VecB)>>}
        counts == {<<>>, <<3>>}
        thrs   == {<<>>, <<None>>, <<<<85>>>>}
    IN  {SetKeys(SetKeys(SetKeys(sh, IF e = <<>> THEN <<>> ELSE [ema |-> e[1]]),
                         IF c = <<>> THEN <<>> ELSE [count |-> c[1]]),
                 IF t = <<>> THEN <<>> ELSE [thr |-> t[1]]) :
            sh \in shapes, e \in emas, c \in counts, t \in thrs}

\* the registries of up to MaxRecs such records
LegacyRegistries == UNION {[1..n -> LegacyRecords] : n \in 0..MaxRecs}

InitLoad ==
    /\ \E reg \in LegacyRegistries :
         fs = [p \in Paths |-> IF p = PersonIndex THEN FileOf(Dumps(reg)) ELSE Absent]
    /\ folders = {}
    /\ persons = <<>>
    /\ Quiet
    /\ FileLock = TRUE
    /\ NoWriters
    /\ Elsewhere

\* one call of load_person_index, lines 255-284
LoadCall ==
    /\ Len(loads) < 2
    /\ LET ld == LoadPersonIndex(fs)
       IN  /\ fs' = ld.files
           /\ loads' = Append(loads, [before  |-> fs[PersonIndex],
                                      persons |-> ld.persons,
                                      changed |-> ld.changed,
                                      wrote   |-> ld.files # fs])
    /\ UNCHANGED <<seq, conc, ui, twin, web, deps, users, sources, copied, processed>>

NextLoad == LoadCall

SpecLoad == InitLoad /\ [][NextLoad]_vars

\* ------------------------------------------- concurrent writers and a reader
\* the registry writer w saves, and the one on disk before any of them
RegistryOf(w) == <<NewPerson(w, Normalize(VecA))>>
OldRegistry == <<NewPerson(1, Normalize(VecB))>>

\* json.dumps(idx) of the global index as writer w holds it
IndexText(w) == <<Tok("{", None), Tok("i", <<w>>), Tok("}", None)>>

\* what a write leaves between the end of the file and its offset
Hole == Tok("0", None)

\* write(chunk) at offset pos of a file holding text
WriteAt(text, pos, chunk) ==
    LET n == IF Len(text) > pos + Len(chunk) THEN Len(text) ELSE pos + Len(chunk)
    IN  [i \in 1..n |->
            IF i > pos /\ i <= pos + Len(chunk) THEN chunk[i - pos]
            ELSE IF i <= Len(text) THEN text[i] ELSE Hole]

InitSave ==
    /\ \E old \in {Absent, FileOf(Dumps(OldRegistry))} :
         fs = [p \in Paths |-> IF p = PersonIndex THEN old ELSE Absent]
    /\ folders = {}
    /\ persons = <<>>
    /\ Quiet
    /\ FileLock \in BOOLEAN
    /\ NoWriters
    /\ Elsewhere

\* writer w calls save_person_index (path = PersonIndex), which goes
\* straight to _atomic_write, or save_index (path = GlobalIndex), which
\* takes the lock first when FileLock is not None
Call(w, path) ==
    /\ wr[w].pc \in {"idle", "done", "failed"}
    /\ wr[w].saves < MaxSaves
    /\ wr' = [wr EXCEPT ![w] =
                 [pc    |-> IF path = GlobalIndex /\ FileLock THEN "lock" ELSE "open",
                  path  |-> path,
                  text  |-> IF path = GlobalIndex THEN IndexText(w) ELSE Dumps(RegistryOf(w)),
                  pos   |-> 0,
                  saves |-> wr[w].saves + 1]]
    /\ UNCHANGED <<fs, seq, others, FileLock, lockedBy, seen>>

\* with lock: blocks while another writer holds it
Acquire(w) ==
    /\ wr[w].pc = "lock"
    /\ lockedBy = {}
    /\ lockedBy' = {w}
    /\ wr' = [wr EXCEPT ![w].pc = "open"]
    /\ UNCHANGED <<fs, seq, others, FileLock, seen>>

\* tmp.write_text, the open: the file is created, or truncated where it exists
Open(w) ==
    /\ wr[w].pc = "open"
    /\ LET tmp == TmpOf(wr[w].path)
       IN  fs' = [fs EXCEPT ![tmp] = [exists |-> TRUE, text |-> <<>>,
                                      openBy |-> fs[tmp].openBy \cup {w}]]
    /\ wr' = [wr EXCEPT ![w].pc = "write"]
    /\ UNCHANGED <<seq, others, FileLock, lockedBy, seen>>

\* tmp.write_text, one flush of n chunks at the writer's offset, into the
\* file its descriptor refers to, wherever that file now is (nowhere, if it
\* was replaced)
Write(w, n) ==
    /\ wr[w].pc = "write"
    /\ n \in 1..(Len(wr[w].text) - wr[w].pos)
    /\ fs' = [p \in Paths |->
                IF w \in fs[p].openBy
                THEN [fs[p] EXCEPT !.text =
                         WriteAt(fs[p].text, wr[w].pos, SubSeq(wr[w].text, wr[w].pos + 1, wr[w].pos + n))]
                ELSE fs[p]]
    /\ wr' = [wr EXCEPT ![w].pos = wr[w].pos + n,
                        ![w].pc = IF wr[w].pos + n = Len(wr[w].text) THEN "replace" ELSE "write"]
    /\ UNCHANGED <<seq, others, FileLock, lockedBy, seen>>

\* the end of write_text (the file is closed), then tmp.replace(path):
\* FileNotFoundError when tmp is gone
Replace(w) ==
    /\ wr[w].pc = "replace"
    /\ LET path   == wr[w].path
           tmp    == TmpOf(path)
           closed == [p \in Paths |-> [fs[p] EXCEPT !.openBy = fs[p].openBy \ {w}]]
       IN  IF closed[tmp].exists
           THEN /\ fs' = [closed EXCEPT ![path] = closed[tmp], ![tmp] = Absent]
                /\ wr' = [wr EXCEPT ![w].pc = IF w \in lockedBy THEN "unlock" ELSE "done"]
           ELSE /\ fs' = closed
                /\ wr' = [wr EXCEPT ![w].pc = IF w \in lockedBy THEN "unlock_failed" ELSE "failed"]
    /\ UNCHANGED <<seq, others, FileLock, lockedBy, seen>>

\* the exit of "with lock", normal or by exception
Release(w) ==
    /\ wr[w].pc \in {"unlock", "unlock_failed"}
    /\ lockedBy' = lockedBy \ {w}
    /\ wr' = [wr EXCEPT ![w].pc = IF wr[w].pc = "unlock" THEN "done" ELSE "failed"]
    /\ UNCHANGED <<fs, seq, others, FileLock, seen>>

\* the reader: p.exists() and p.read_text() of person_index.json
Read ==
    /\ seen' = [fs[PersonIndex] EXCEPT !.openBy = {}]
    /\ UNCHANGED <<fs, seq, others, FileLock, lockedBy, wr>>

NextSave ==
    \/ \E w \in Writers : \E path \in {PersonIndex, GlobalIndex} : Call(w, path)
    \/ \E w \in Writers : Acquire(w)
    \/ \E w \in Writers : Open(w)
    \/ \E w \in Writers : \E n \in 1..3 : Write(w, n)
    \/ \E w \in Writers : Replace(w)
    \/ \E w \in Writers : Release(w)
    \/ Read

SpecSave == InitSave /\ [][NextSave]_vars

\* ------------------------------------------------- the process button's loop
\* the plans build_plan returns in a run over several targets
RunPlans == PlanSet(0) \cup PlanSet(1)

\* one line of what the handler shows for a target: st.success or st.error
LogLine(dir, kind, error) == [dir |-> dir, kind |-> kind, error |-> error]

\* the files the handler sees once it has left a group directory: those of
\* the parent only
ParentOnly(files) == [p \in Paths |-> IF p = GlobalIndex THEN files[p] ELSE Absent]

InitRun ==
    /\ fs = [p \in Paths |-> Absent]
    /\ folders = {}
    /\ persons = <<>>
    /\ Quiet
    /\ FileLock = TRUE
    /\ NoWriters
    /\ \E n \in 1..MaxDirs : queue = [i \in 1..n |-> i]
    /\ gk = 0
    /\ rpc = "idle"
    /\ built = EmptyPlan
    /\ idx = [group_counts |-> <<>>, saved |-> FALSE]
    /\ proc_logs = <<>>
    /\ twin = None
    /\ NoWeb
    /\ NoExtra

\* lines 873-890: the button is pressed, the index loaded, the logs emptied
Press ==
    /\ rpc = "idle"
    /\ rpc' = "plan"
    /\ gk' = 1
    /\ idx' = [group_counts |-> <<>>, saved |-> FALSE]
    /\ proc_logs' = <<>>
    /\ UNCHANGED <<fs, seq, conc, queue, built, twin, web, extra>>

\* lines 891-899: the loop reaches target gk, a directory in any of the
\* states of SeedDirs, and build_plan returns a plan for it
BuildPlan(d, pl) ==
    /\ rpc = "plan"
    /\ gk <= Len(queue)
    /\ fs' = [p \in Paths |-> IF p = PersonIndex /\ d.exists THEN FileOf(d.text)
                               ELSE IF p = GlobalIndex THEN fs[p] ELSE Absent]
    /\ folders' = d.folders
    /\ built' = pl
    /\ rpc' = "apply"
    /\ UNCHANGED <<pc, raised, minted, deleted, nCand, nEnv, io>>
    /\ UNCHANGED <<local, conc, queue, gk, idx, proc_logs, twin, web, extra>>

\* build_plan raises
BuildPlanFails ==
    /\ rpc = "plan"
    /\ gk <= Len(queue)
    /\ pc' = "failed"
    /\ raised' = "PlanError"
    /\ rpc' = "apply"
    /\ UNCHANGED <<fs, folders, minted, deleted, nCand, nEnv, io>>
    /\ UNCHANGED <<local, conc, queue, gk, built, idx, proc_logs, twin, web, extra>>

\* line 909: match_and_apply is called with the plan
Apply ==
    /\ rpc = "apply"
    /\ pc = "idle"
    /\ Begin(built)

\* a save failure that is swallowed, as the one of the migration write is
SaveFailsSilently ==
    /\ pc = "save"
    /\ pc' = "done"
    /\ raised' = "OSError"
    /\ UNCHANGED <<fs, folders, minted, deleted, nCand, nEnv, io>>
    /\ UNCHANGED <<local, conc, others>>

\* lines 496-497 where the storage fails: _atomic_write raises and
\* person_index.json stays as it was
SaveFails ==
    /\ pc = "save"
    /\ pc' = "failed"
    /\ raised' = "OSError"
    /\ UNCHANGED <<fs, folders, minted, deleted, nCand, nEnv, io>>
    /\ UNCHANGED <<local, conc, others>>

\* line 953 and the next turn of the loop: the handler leaves the directory
\* and the locals of match_and_apply are gone
NextTarget ==
    /\ gk' = gk + 1
    /\ rpc' = "plan"
    /\ fs' = ParentOnly(fs)
    /\ folders' = {}
    /\ persons' = <<>>
    /\ pc' = "idle"
    /\ raised' = ""
    /\ plan' = EmptyPlan
    /\ loaded' = <<>>
    /\ centroids_norm' = <<>>
    /\ rows' = <<>>
    /\ per_thr' = <<>>
    /\ cur_max' = 0
    /\ k' = 1
    /\ assigned' = <<>>
    /\ new_nums' = <<>>
    /\ minted' = <<>>
    /\ deleted' = FALSE
    /\ nCand' = 0
    /\ nEnv' = 0
    /\ io' = <<>>
    /\ UNCHANGED <<conc, queue, built, twin, web, extra>>

\* lines 909-948: match_and_apply returned; the count is recorded and the
\* success shown
Report ==
    /\ rpc = "apply"
    /\ pc = "done"
    /\ idx' = [idx EXCEPT !.group_counts = (queue[gk] :> Len(persons)) @@ idx.group_counts]
    /\ proc_logs' = Append(proc_logs, LogLine(queue[gk], "success", ""))
    /\ NextTarget

\* an exception that ends the loop instead of the turn
ExceptAborts ==
    /\ rpc = "apply"
    /\ pc = "failed"
    /\ proc_logs' = Append(proc_logs, LogLine(queue[gk], "error", raised))
    /\ rpc' = "aborted"
    /\ UNCHANGED <<fs, seq, conc, queue, gk, built, idx, twin, web, extra>>

\* lines 949-951: build_plan or match_and_apply raised; the error is shown
Except ==
    /\ rpc = "apply"
    /\ pc = "failed"
    /\ proc_logs' = Append(proc_logs, LogLine(queue[gk], "error", raised))
    /\ idx' = idx
    /\ NextTarget

\* lines 955-972: the loop is over; save_index, then the queue is cleared
Finish ==
    /\ rpc = "plan"
    /\ gk > Len(queue)
    /\ fs' = AtomicWrite(fs, GlobalIndex, IndexText(idx.group_counts))
    /\ idx' = [idx EXCEPT !.saved = TRUE]
    /\ queue' = <<>>
    /\ rpc' = "finished"
    /\ UNCHANGED <<seq, conc, gk, built, proc_logs, twin, web, extra>>

NextRun ==
    \/ Press
    \/ \E d \in SeedDirs : \E pl \in RunPlans : BuildPlan(d, pl)
    \/ BuildPlanFails
    \/ Apply
    \/ MatchStep
    \/ EnsureDirs
    \/ Save
    \/ SaveFails
    \/ Report
    \/ Except
    \/ Finish

SpecRun == InitRun /\ [][NextRun]_vars

\* --------------------------------------- one invocation, run a second time
\* what an invocation leaves: its return or exception, its assignment map
\* and the directory after it
Outcome ==
    [pc |-> pc, raised |-> raised, assigned |-> assigned, new_nums |-> new_nums,
     registry |-> fs[PersonIndex], folders |-> folders]

InitTwin ==
    /\ \E d \in SeedDirs :
         /\ fs = [p \in Paths |-> IF p = PersonIndex /\ d.exists THEN FileOf(d.text) ELSE Absent]
         /\ folders = d.folders
         /\ twin = [registry |-> IF d.exists THEN FileOf(d.text) ELSE Absent,
                    folders |-> d.folders, outcomes |-> <<>>]
    /\ persons = <<>>
    /\ Quiet
    /\ FileLock = TRUE
    /\ NoWriters
    /\ NoRun
    /\ NoWeb
    /\ NoExtra

\* match_and_apply is called on the directory with plan pl
First(pl) ==
    /\ twin.outcomes = <<>>
    /\ pc = "idle"
    /\ Begin(pl)

\* the invocation is over: its outcome is kept, and the directory is put
\* back as it was before it (what the process holds in memory stays)
PutBack ==
    /\ pc \in {"done", "failed"}
    /\ Len(twin.outcomes) < 2
    /\ twin' = [twin EXCEPT !.outcomes = Append(twin.outcomes, Outcome)]
    /\ fs' = [fs EXCEPT ![PersonIndex] = twin.registry]
    /\ folders' = twin.folders
    /\ pc' = "idle"
    /\ UNCHANGED <<raised, minted, deleted, nCand, nEnv, io>>
    /\ UNCHANGED <<local, conc, ui, web, extra>>

\* match_and_apply is called again with the same plan
Second ==
    /\ Len(twin.outcomes) = 1
    /\ pc = "idle"
    /\ Begin(plan)

NextTwin ==
    \/ \E n \in 0..MaxCand : \E pl \in PlanSet(n) : First(pl)
    \/ MatchStep
    \/ EnsureDirs
    \/ Save
    \/ PutBack
    \/ Second

SpecTwin == InitTwin /\ [][NextTwin]_vars

\* --------------------------------------------- tasks: models, serializers, views
\* Task.Status (NEW is a reserved word)
Status_NEW == "new"
Status_IN_PROGRESS == "in_progress"
Status_DONE == "done"
Status_CANCELLED == "cancelled"

\* Status.choices
Statuses == {Status_NEW, Status_IN_PROGRESS, Status_DONE, Status_CANCELLED}

\* the statuses the rows of the model are created with or set to
TaskStatuses == {Status_NEW, Status_IN_PROGRESS, Status_DONE}

\* TASK_CONFIG
ACTIVE_STATUSES == <<"NEW", "IN_PROGRESS">>
CRITICAL_PARENT_STATUS == "NEW"
CRITICAL_CHILD_STATUS == "IN_PROGRESS"

\* str.upper and str.lower on the names of the statuses
Upper(str) ==
    CASE str \in {"new", "NEW"} -> "NEW"
      [] str \in {"in_progress", "IN_PROGRESS"} -> "IN_PROGRESS"
      [] str \in {"done", "DONE"} -> "DONE"
      [] str \in {"cancelled", "CANCELLED"} -> "CANCELLED"
      [] OTHER -> str

Lower(str) ==
    CASE str \in {"new", "NEW"} -> "new"
      [] str \in {"in_progress", "IN_PROGRESS"} -> "in_progress"
      [] str \in {"done", "DONE"} -> "done"
      [] str \in {"cancelled", "CANCELLED"} -> "cancelled"
      [] OTHER -> str

\* the lookup __iexact, and __in, which compares as the database does:
\* byte for byte
IExact(value, str) == Upper(value) = Upper(str)
In(value, list) == InSeq(value, list)

\* a row of Task: parent and assignee are None or <<id>>
TaskRow(parent, status, assignee) == [parent |-> parent, status |-> status, assignee |-> assignee]

\* a row of Employee; full_name is the rank of the name in alphabetical order
EmployeeRow(full_name, is_active) == [full_name |-> full_name, is_active |-> is_active]

\* the related manager task.subtasks
Subtasks(table, t) == {c \in DOMAIN table : table[c].parent = <<t>>}

\* the while loop of _validate_parent_hierarchy and of _validate_parent_cycle:
\* the message of the ValidationError, "" where none is raised
RECURSIVE WalkParents(_, _, _, _, _)
WalkParents(table, self_id, current, visited, own) ==
    IF current = None THEN ""
    ELSE IF current[1] \in visited THEN "Parent hierarchy contains a cycle."
    ELSE IF current[1] = self_id THEN own
    ELSE WalkParents(table, self_id, table[current[1]].parent, visited \cup {current[1]}, own)

\* a validation that stops at the task's own parent
ValidateParentDirect(table, self_id, parent) ==
    IF parent = <<self_id>> THEN "Cannot set task as its own parent." ELSE ""

\* Task._validate_parent_hierarchy
ValidateParentHierarchy(table, self_id, parent) ==
    WalkParents(table, self_id, parent, {}, "Cannot set task as its own parent.")

\* Task.full_clean: the choices of status, the existence of the parent row,
\* then clean()
FullClean(table, self_id, row) ==
    IF row.status \notin Statuses THEN "not a valid choice"
    ELSE IF row.parent # None /\ row.parent[1] \notin DOMAIN table THEN "does not exist"
    ELSE ValidateParentHierarchy(table, self_id, row.parent)

\* TaskSerializer.validate_parent
ValidateParent(instance, value) ==
    IF value # None /\ instance # None /\ value = instance
    THEN "Task cannot be its own parent." ELSE ""

\* TaskSerializer._validate_parent_cycle
ValidateParentCycle(table, instance, parent) ==
    IF instance = None THEN ""
    ELSE WalkParents(table, instance[1], parent, {}, "Cannot set task as its own ancestor.")

\* TaskSerializer.is_valid for a request that gives parent: the field, then
\* validate()
IsValid(table, instance, parent) ==
    IF parent # None /\ parent[1] \notin DOMAIN table THEN "does not exist"
    ELSE IF ValidateParent(instance, parent) # "" THEN ValidateParent(instance, parent)
    ELSE IF parent # None THEN ValidateParentCycle(table, instance, parent)
    ELSE ""

\* Task.is_critical
IsCritical(table, t) ==
    /\ Upper(table[t].status) = CRITICAL_PARENT_STATUS
    /\ \E c \in Subtasks(table, t) : IExact(table[c].status, CRITICAL_CHILD_STATUS)

\* the ids of table in the order of Meta.ordering, -created_at
NewestFirst(table) == [i \in 1..Len(table) |-> Len(table) + 1 - i]

\* the rows of the two filters of get_critical_tasks: one per pair of a task
\* and a subtask of it that match, the join of subtasks
RECURSIVE CriticalJoin(_, _)
CriticalJoin(table, ids) ==
    IF ids = <<>> THEN <<>>
    ELSE LET t    == Head(ids)
             hits == {c \in Subtasks(table, t) : IExact(table[c].status, CRITICAL_CHILD_STATUS)}
         IN  (IF IExact(table[t].status, CRITICAL_PARENT_STATUS)
              THEN [i \in 1..Cardinality(hits) |-> t] ELSE <<>>)
             \o CriticalJoin(table, Tail(ids))

\* .distinct()
RECURSIVE Distinct(_)
Distinct(list) ==
    IF list = <<>> THEN <<>>
    ELSE LET front == Distinct(SubSeq(list, 1, Len(list) - 1))
             last  == list[Len(list)]
         IN  IF InSeq(last, front) THEN front ELSE Append(front, last)

\* get_critical_tasks without .distinct()
GetCriticalTasksJoined(table) == CriticalJoin(table, NewestFirst(table))

\* Task.get_critical_tasks
GetCriticalTasks(table) == Distinct(CriticalJoin(table, NewestFirst(table)))

\* Count('tasks', filter=Q(tasks__status__in=active_statuses))
ActiveTasksCount(table, e, active_statuses) ==
    Cardinality({t \in DOMAIN table : table[t].assignee = <<e>> /\ In(table[t].status, active_statuses)})

\* the statuses of TASK_CONFIG in lower case, as get_active_tasks takes them
ActiveStatusesLower == [i \in 1..Len(ACTIVE_STATUSES) |-> Lower(ACTIVE_STATUSES[i])]

\* the statuses of TASK_CONFIG as EmployeeViewSet.workload takes them
ActiveStatusesUpper == [i \in 1..Len(ACTIVE_STATUSES) |-> Upper(ACTIVE_STATUSES[i])]

\* EmployeeViewSet.workload: the active employees with their count, ordered
\* by -active_tasks_count, then full_name
Workload(emps, table) ==
    LET count(e) == ActiveTasksCount(table, e, ActiveStatusesUpper)
        before(a, b) == \/ count(a) > count(b)
                        \/ count(a) = count(b) /\ emps[a].full_name <= emps[b].full_name
        RECURSIVE ordered(_)
        ordered(S) == IF S = {} THEN <<>>
                      ELSE LET first == CHOOSE a \in S : \A b \in S : before(a, b)
                           IN  <<[employee_id |-> first, active_tasks_count |-> count(first)]>>
                               \o ordered(S \ {first})
    IN  ordered({e \in DOMAIN emps : emps[e].is_active})

\* the answer to a request, or the outcome of a save
Response(op, error, data) == [op |-> op, ok |-> error = "", error |-> error, data |-> data]

\* the tables before any request: no task; for the workload, two active
\* employees and one who is not
Staff == <<EmployeeRow(2, TRUE), EmployeeRow(1, TRUE), EmployeeRow(3, FALSE)>>

InitTasks ==
    /\ fs = [p \in Paths |-> Absent]
    /\ folders = {}
    /\ persons = <<>>
    /\ Quiet
    /\ FileLock = TRUE
    /\ NoWriters
    /\ NoRun
    /\ twin = None
    /\ tasks = <<>>
    /\ employees = Staff
    /\ resp = None
    /\ NoExtra

\* Task(...).save() of a new task, as TaskFactory does
ModelCreate(parent, status, assignee) ==
    /\ Len(tasks) < MaxTasks
    /\ LET row == TaskRow(parent, status, assignee)
           err == FullClean(tasks, Len(tasks) + 1, row)
       IN  /\ tasks' = IF err = "" THEN Append(tasks, row) ELSE tasks
           /\ resp' = Response("save", err, <<>>)
    /\ UNCHANGED <<fs, seq, conc, ui, twin, employees, extra>>

\* task.parent = parent; task.save()
ModelSetParent(t, parent) ==
    /\ t \in DOMAIN tasks
    /\ LET row == [tasks[t] EXCEPT !.parent = parent]
           err == FullClean(tasks, t, row)
       IN  /\ tasks' = IF err = "" THEN [tasks EXCEPT ![t] = row] ELSE tasks
           /\ resp' = Response("save", err, <<>>)
    /\ UNCHANGED <<fs, seq, conc, ui, twin, employees, extra>>

\* task.status = status; task.save()
ModelSetStatus(t, status) ==
    /\ t \in DOMAIN tasks
    /\ LET row == [tasks[t] EXCEPT !.status = status]
           err == FullClean(tasks, t, row)
       IN  /\ tasks' = IF err = "" THEN [tasks EXCEPT ![t] = row] ELSE tasks
           /\ resp' = Response("save", err, <<>>)
    /\ UNCHANGED <<fs, seq, conc, ui, twin, employees, extra>>

\* POST through TaskSerializer: is_valid, then create and Task.save
ApiCreate(parent, status) ==
    /\ Len(tasks) < MaxTasks
    /\ LET row == TaskRow(parent, status, None)
           err == IF IsValid(tasks, None, parent) # "" THEN IsValid(tasks, None, parent)
                  ELSE FullClean(tasks, Len(tasks) + 1, row)
       IN  /\ tasks' = IF err = "" THEN Append(tasks, row) ELSE tasks
           /\ resp' = Response("api", err, <<>>)
    /\ UNCHANGED <<fs, seq, conc, ui, twin, employees, extra>>

\* PATCH {parent} through TaskSerializer: is_valid, then update and Task.save
ApiSetParent(t, parent) ==
    /\ t \in DOMAIN tasks
    /\ LET row == [tasks[t] EXCEPT !.parent = parent]
           err == IF IsValid(tasks, <<t>>, parent) # "" THEN IsValid(tasks, <<t>>, parent)
                  ELSE FullClean(tasks, t, row)
       IN  /\ tasks' = IF err = "" THEN [tasks EXCEPT ![t] = row] ELSE tasks
           /\ resp' = Response("api", err, <<>>)
    /\ UNCHANGED <<fs, seq, conc, ui, twin, employees, extra>>

\* validate_status with TASK_VALIDATION_STATUS_BUSINESS_RULES off
ValidateStatusOff(table, instance, value) == ""

\* TaskSerializer.validate_status, with the business rules on
ValidateStatus(table, instance, value) ==
    IF /\ value = Status_DONE
       /\ instance # None
       /\ \E c \in Subtasks(table, instance[1]) : table[c].status = Status_IN_PROGRESS
    THEN "Cannot mark task as DONE while it has subtasks in progress."
    ELSE ""

\* PATCH {status} through TaskSerializer: the choice, validate_status as
\* validator of the field, validate(), which calls it again when the status
\* changes, then update and Task.save
ApiSetStatus(t, status) ==
    /\ t \in DOMAIN tasks
    /\ LET row == [tasks[t] EXCEPT !.status = status]
           err == IF status \notin Statuses THEN "not a valid choice"
                  ELSE IF ValidateStatus(tasks, <<t>>, status) # ""
                  THEN ValidateStatus(tasks, <<t>>, status)
                  ELSE IF status # tasks[t].status /\ ValidateStatus(tasks, <<t>>, status) # ""
                  THEN ValidateStatus(tasks, <<t>>, status)
                  ELSE FullClean(tasks, t, row)
       IN  /\ tasks' = IF err = "" THEN [tasks EXCEPT ![t] = row] ELSE tasks
           /\ resp' = Response("status", err, <<>>)
    /\ UNCHANGED <<fs, seq, conc, ui, twin, employees, extra>>

\* TaskViewSet.critical
Critical ==
    /\ resp' = Response("critical", "", GetCriticalTasks(tasks))
    /\ UNCHANGED <<fs, seq, conc, ui, twin, tasks, employees, extra>>

\* EmployeeViewSet.workload
WorkloadView ==
    /\ resp' = Response("workload", "", Workload(employees, tasks))
    /\ UNCHANGED <<fs, seq, conc, ui, twin, tasks, employees, extra>>

\* None, or the id of a row of the table or of the row about to be made
Refs(n) == {None} \cup {<<i>> : i \in 1..n}

NextTasks ==
    \/ \E parent \in Refs(Len(tasks) + 1) : \E status \in TaskStatuses :
          ModelCreate(parent, status, None)
    \/ \E t \in DOMAIN tasks : \E parent \in Refs(Len(tasks)) : ModelSetParent(t, parent)
    \/ \E t \in DOMAIN tasks : \E status \in TaskStatuses : ModelSetStatus(t, status)
    \/ \E parent \in Refs(Len(tasks) + 1) : \E status \in TaskStatuses : ApiCreate(parent, status)
    \/ \E t \in DOMAIN tasks : \E parent \in Refs(Len(tasks)) : ApiSetParent(t, parent)
    \/ Critical

SpecTasks == InitTasks /\ [][NextTasks]_vars

\* tasks created with a parent and a status, and their status updated
\* through the serializer
NextStatus ==
    \/ \E parent \in Refs(Len(tasks)) : \E status \in TaskStatuses :
          ModelCreate(parent, status, None)
    \/ \E t \in DOMAIN tasks : \E status \in TaskStatuses : ApiSetStatus(t, status)

SpecStatus == InitTasks /\ [][NextStatus]_vars

NextWorkload ==
    \/ \E e \in DOMAIN employees : \E status \in TaskStatuses : ModelCreate(None, status, <<e>>)
    \/ WorkloadView

SpecWorkload == InitTasks /\ [][NextWorkload]_vars

\* ------------------------------------------------- permissions and viewsets
\* the users that send requests: one of the group manager, two others with an
\* employee profile, and one that is not authenticated
Users == {"manager", "alice", "bob", "anonymous"}

\* IsAuthenticated.has_permission
IsAuthenticated(user) == user # "anonymous"

\* request.user.groups.filter(name='manager').exists()
InManagerGroup(user) == user = "manager"

\* request.user.employee_profile
EmployeeProfile(user) ==
    CASE user = "alice" -> <<1>>
      [] user = "bob" -> <<2>>
      [] OTHER -> None

SAFE_METHODS == {"GET", "HEAD", "OPTIONS"}

\* IsManagerOrReadOnly: has_permission and has_object_permission
IsManagerOrReadOnly(user) == IsAuthenticated(user)
IsManagerOrReadOnlyObject(user, method) == method \in SAFE_METHODS \/ InManagerGroup(user)

\* IsOwnerOrManager.has_object_permission; has_permission is BasePermission's
IsOwnerOrManagerObject(user, obj) ==
    \/ InManagerGroup(user)
    \/ obj.assignee # None /\ obj.assignee = EmployeeProfile(user)

\* the answer of a view to the request of user
ViewResponse(op, user, status, data) ==
    [op |-> op, ok |-> status < 400, error |-> "", data |-> data, user |-> user, status |-> status]

\* a table without row r, and the id of its next row
Without(table, r) == [i \in DOMAIN table \ {r} |-> table[i]]
NextId(table) == IF DOMAIN table = {} THEN 1 ELSE MaxOf(DOMAIN table) + 1

\* EmployeeViewSet.get_queryset
ActiveEmployees(emps) == {e \in DOMAIN emps : emps[e].is_active}

\* a request to EmployeeViewSet: check_permissions, then for the actions on
\* one employee get_object, which looks the row up in get_queryset and
\* calls check_object_permissions, then the action.  target is None for
\* list and create.
EmployeeRequest(op, method, user, target, after) ==
    /\ LET status ==
             IF ~(IsAuthenticated(user) /\ IsManagerOrReadOnly(user)) THEN 401
             ELSE IF target # None /\ target[1] \notin ActiveEmployees(employees) THEN 404
             ELSE IF target # None /\ ~IsManagerOrReadOnlyObject(user, method) THEN 403
             ELSE IF method = "POST" THEN 201
             ELSE IF method = "DELETE" THEN 204 ELSE 200
       IN  /\ employees' = IF status < 400 THEN after ELSE employees
           /\ resp' = ViewResponse(op, user, status,
                                    IF status >= 400 \/ method # "GET" THEN {}
                                    ELSE IF target = None THEN ActiveEmployees(employees)
                                    ELSE {target[1]})
    /\ UNCHANGED <<fs, seq, conc, ui, twin, tasks, extra>>

EmployeeList(user) == EmployeeRequest("list", "GET", user, None, employees)

EmployeeRetrieve(user, e) == EmployeeRequest("retrieve", "GET", user, <<e>>, employees)

EmployeeCreate(user, is_active) ==
    /\ NextId(employees) <= MaxStaff
    /\ EmployeeRequest("create", "POST", user, None,
                       (NextId(employees) :> EmployeeRow(NextId(employees), is_active)) @@ employees)

EmployeeUpdate(user, e, is_active) ==
    /\ e \in DOMAIN employees
    /\ EmployeeRequest("update", "PATCH", user, <<e>>, [employees EXCEPT ![e].is_active = is_active])

EmployeeDestroy(user, e) ==
    EmployeeRequest("destroy", "DELETE", user, <<e>>, Without(employees, e))

NextEmployees ==
    \/ \E user \in Users : EmployeeList(user)
    \/ \E user \in Users : \E e \in 1..MaxStaff : EmployeeRetrieve(user, e)
    \/ \E user \in Users : \E is_active \in BOOLEAN : EmployeeCreate(user, is_active)
    \/ \E user \in Users : \E e \in 1..MaxStaff : \E is_active \in BOOLEAN :
          EmployeeUpdate(user, e, is_active)
    \/ \E user \in Users : \E e \in 1..MaxStaff : EmployeeDestroy(user, e)

SpecEmployees == InitTasks /\ [][NextEmployees]_vars

\* a request to TaskViewSet: check_permissions (IsAuthenticated; IsOwnerOrManager
\* has no has_permission of its own), then for the actions on one task
\* get_object with check_object_permissions, then the action
TaskRequest(op, method, user, target, after, data) ==
    /\ LET status ==
             IF ~IsAuthenticated(user) THEN 401
             ELSE IF target # None /\ target[1] \notin DOMAIN tasks THEN 404
             ELSE IF target # None /\ ~IsOwnerOrManagerObject(user, tasks[target[1]]) THEN 403
             ELSE IF method = "POST" THEN 201
             ELSE IF method = "DELETE" THEN 204 ELSE 200
       IN  /\ tasks' = IF status < 400 THEN after ELSE tasks
           /\ resp' = ViewResponse(op, user, status, IF status < 400 THEN data ELSE {})
    /\ UNCHANGED <<fs, seq, conc, ui, twin, employees, extra>>

\* list, and the list endpoints active and critical: every row of the
\* queryset they build
TaskList(user) == TaskRequest("list", "GET", user, None, tasks, DOMAIN tasks)

TaskCritical(user) ==
    TaskRequest("critical", "GET", user, None, tasks, Range(GetCriticalTasks(tasks)))

TaskRetrieve(user, t) == TaskRequest("retrieve", "GET", user, <<t>>, tasks, {t})

TaskCreate(user, status, assignee) ==
    /\ Len(tasks) < MaxTasks
    /\ TaskRequest("create", "POST", user, None,
                   Append(tasks, TaskRow(None, status, assignee)), {Len(tasks) + 1})

TaskUpdate(user, t, status) ==
    /\ t \in DOMAIN tasks
    /\ ValidateStatus(tasks, <<t>>, status) = ""
    /\ TaskRequest("update", "PATCH", user, <<t>>, [tasks EXCEPT ![t].status = status], {t})

NextTaskAccess ==
    \/ \E user \in Users : TaskList(user)
    \/ \E user \in Users : TaskCritical(user)
    \/ \E user \in Users : \E t \in 1..MaxTasks : TaskRetrieve(user, t)
    \/ \E user \in Users : \E assignee \in {None, <<1>>, <<2>>} :
          TaskCreate(user, Status_NEW, assignee)
    \/ \E user \in Users : \E t \in 1..MaxTasks : TaskUpdate(user, t, Status_DONE)

SpecTaskAccess == InitTasks /\ [][NextTaskAccess]_vars

\* --------------------------------------------------------------- register_view
\* the usernames, passwords and e-mail addresses of the requests; "" is a
\* field left out or empty
Usernames == {"", "ann", "ben", "cat"}
Passwords == {"", "pw"}
Emails == {"", "a@x", "b@x"}

\* the Employee row register_view creates
ProfileRow(user, email) == [user |-> user, email |-> email, is_active |-> TRUE]

\* user.delete() skipped
UserDeleteSkipped(table, username) == table

\* user.delete() in the except branch
UserDelete(table, username) == table \ {username}

\* on_delete=CASCADE of Employee.user: the profiles of the users left
Cascade(emps, table) ==
    LET keep == {e \in DOMAIN emps : emps[e].user \in table}
    IN  [e \in keep |-> emps[e]]

InitRegister ==
    /\ fs = [p \in Paths |-> Absent]
    /\ folders = {}
    /\ persons = <<>>
    /\ Quiet
    /\ FileLock = TRUE
    /\ NoWriters
    /\ Elsewhere

\* register_view, lines 90-156.  Employee.objects.create raises when the
\* e-mail is that of another employee (unique=True); token_ok is FALSE when
\* RefreshToken.for_user or the serialization of the answer raises.
Register(username, password, email, token_ok) ==
    /\ LET created  == users \cup {username}
           taken    == \E e \in DOMAIN employees : employees[e].email = email
           profiles == (NextId(employees) :> ProfileRow(username, email)) @@ employees
       IN  IF username = "" \/ password = "" \/ username \in users
           THEN /\ users' = users
                /\ employees' = employees
                /\ resp' = ViewResponse("register", username, 400, {})
           ELSE IF taken
           THEN /\ users' = UserDelete(created, username)
                /\ employees' = Cascade(employees, UserDelete(created, username))
                /\ resp' = ViewResponse("register", username, 400, {})
           ELSE IF ~token_ok
           THEN /\ users' = UserDelete(created, username)
                /\ employees' = Cascade(profiles, UserDelete(created, username))
                /\ resp' = ViewResponse("register", username, 400, {})
           ELSE /\ users' = created
                /\ employees' = profiles
                /\ resp' = ViewResponse("register", username, 201, {})
    /\ UNCHANGED <<fs, seq, conc, ui, twin, tasks, loads, deps, sources, copied, processed>>

NextRegister ==
    \E username \in Usernames : \E password \in Passwords : \E email \in Emails :
        \E token_ok \in BOOLEAN : Register(username, password, email, token_ok)

SpecRegister == InitRegister /\ [][NextRegister]_vars

\* ------------------------------------------- copies and deletion of originals
\* the source images of the processed directory and the clusters of a dir_plan
Images == {"a.jpg", "b.jpg", "c.jpg"}
Cids == {0, 1}

\* where the dir_plan puts one image: in the images of cluster 0, of cluster 1,
\* of both, in group_only_images, in unknown_images, or nowhere
Kinds == {"c0", "c1", "both", "go", "un", "none"}

\* plan["cluster_images"], plan["group_only_images"], plan["unknown_images"]
Plan(kind) ==
    [cluster_images    |-> [cid \in Cids |->
                              {img \in Images :
                                 kind[img] = "both" \/ kind[img] = (IF cid = 0 THEN "c0" ELSE "c1")}],
     group_only_images |-> {img \in Images : kind[img] = "go"},
     unknown_images    |-> {img \in Images : kind[img] = "un"}]

DeletePlans == {Plan(kind) : kind \in [Images -> Kinds]}

\* lines 457-473: the images of the clusters that have a number (assigned or
\* new_nums) whose safe_copy did not raise; shutil.copy2 raises for a source
\* that is not there and for the images outside copy_ok
ClusterCopies(dir_plan, numbered, copy_ok) ==
    {img \in Images : /\ \E cid \in numbered : img \in dir_plan.cluster_images[cid]
                      /\ img \in sources
                      /\ img \in copy_ok}

\* lines 476-494
OtherCopies(dir_plan, copy_ok) ==
    {img \in dir_plan.group_only_images \cup dir_plan.unknown_images :
        img \in sources /\ img \in copy_ok}

\* lines 499-507
ProcessedSources(dir_plan) ==
    UNION {dir_plan.cluster_images[cid] : cid \in Cids}
        \cup dir_plan.group_only_images \cup dir_plan.unknown_images

InitDelete ==
    /\ fs = [p \in Paths |-> Absent]
    /\ folders = {}
    /\ persons = <<>>
    /\ Quiet
    /\ FileLock = TRUE
    /\ NoWriters
    /\ NoRun /\ twin = None /\ NoWeb
    /\ loads = <<>> /\ deps = {} /\ users = {}
    /\ sources = Images
    /\ copied = {}
    /\ processed = {}

\* one directory of the process loop, lines 909-923 with the copies of
\* match_and_apply: numbered are the clusters that got a number, failed says
\* that match_and_apply raised after its copies (save_person_index), which
\* the except of line 949 catches
ProcessDirectory(dir_plan, numbered, copy_ok, del_after_copy, failed) ==
    /\ sources # {}
    /\ copied' = ClusterCopies(dir_plan, numbered, copy_ok) \cup OtherCopies(dir_plan, copy_ok)
    /\ IF failed
       THEN /\ processed' = {}
            /\ sources' = sources
       ELSE /\ processed' = ProcessedSources(dir_plan)
            /\ sources' = IF del_after_copy
                           THEN sources \ ProcessedSources(dir_plan)
                           ELSE sources
    /\ UNCHANGED <<fs, seq, conc, ui, twin, web, loads, deps, users>>

NextDelete ==
    \E dir_plan \in DeletePlans : \E numbered \in SUBSET Cids : \E copy_ok \in SUBSET Images :
        \E del_after_copy \in BOOLEAN : \E failed \in BOOLEAN :
            ProcessDirectory(dir_plan, numbered, copy_ok, del_after_copy, failed)

SpecDelete == InitDelete /\ [][NextDelete]_vars

\* ------------------------------------------------------------ TaskDependency
\* TaskDependency.objects.filter(predecessor=current)
\*     .exclude(successor=self.predecessor).first(), in the order of
\* Meta.ordering, the titles taken in the order of the ids: the successor of
\* the row found, None without one
FirstDependency(rows_, current, predecessor) ==
    LET found == {d \in rows_ : d[1] = current /\ d[2] # predecessor}
    IN  IF found = {} THEN None
        ELSE <<(CHOOSE d \in found : \A e \in found : d[2] <= e[2])[2]>>

\* the while loop of _validate_no_circular_dependency
RECURSIVE WalkSuccessors(_, _, _, _)
WalkSuccessors(rows_, predecessor, current, visited) ==
    IF current = None THEN ""
    ELSE IF current[1] \in visited
    THEN "This dependency would create a circular dependency."
    ELSE IF current[1] = predecessor
    THEN "This dependency would create a circular dependency."
    ELSE WalkSuccessors(rows_, predecessor,
                        FirstDependency(rows_, current[1], predecessor),
                        visited \cup {current[1]})

\* TaskDependency.full_clean: clean(), then the uniqueness of the pair
DependencyFullClean(rows_, predecessor, successor) ==
    IF predecessor = successor THEN "Task cannot depend on itself."
    ELSE IF WalkSuccessors(rows_, predecessor, <<successor>>, {}) # ""
    THEN WalkSuccessors(rows_, predecessor, <<successor>>, {})
    ELSE IF <<predecessor, successor>> \in rows_
    THEN "Task dependency with this Predecessor and Successor already exists."
    ELSE ""

\* the tasks the dependencies are drawn between
InitDeps ==
    /\ fs = [p \in Paths |-> Absent]
    /\ folders = {}
    /\ persons = <<>>
    /\ Quiet
    /\ FileLock = TRUE
    /\ NoWriters
    /\ NoRun
    /\ twin = None
    /\ tasks = [i \in 1..MaxTasks |-> TaskRow(None, Status_NEW, None)]
    /\ employees = <<>>
    /\ resp = None
    /\ NoExtra

\* TaskDependency(predecessor=.., successor=..).save()
SaveDependency(predecessor, successor) ==
    /\ LET err == DependencyFullClean(deps, predecessor, successor)
       IN  /\ deps' = IF err = "" THEN deps \cup {<<predecessor, successor>>} ELSE deps
           /\ resp' = Response("dependency", err, <<>>)
    /\ UNCHANGED <<fs, seq, conc, ui, twin, tasks, employees, loads, users, sources, copied,
                   processed>>

NextDeps == \E predecessor, successor \in DOMAIN tasks : SaveDependency(predecessor, successor)

SpecDeps == InitDeps /\ [][NextDeps]_vars

\* ================================================================== claims
\* the invocation got past its set-up and is in, or past, the loop
Running == pc \in {"match", "save", "done"}

\* the candidates the loop has been through, by cluster id
Processed == {plan.eligible[i] : i \in 1..(k - 1)}

\* those of them that have a centroid
Scored == {cid \in Processed : cid \in DOMAIN plan.centroids}

\* the scores of candidate cid against the identities of the registry as
\* loaded, by identity number
LoadedScores(cid) == PersonScores(ProtoRows(loaded), Normalize(plan.centroids[cid].v))

\* n is a top identity among the scores sc
IsTop(sc, n) == n \in DOMAIN sc /\ \A o \in DOMAIN sc : sc[o] <= sc[n]

\* the runner-up of top identity n is closer than the margin
Ambiguous(sc, n) == \E o \in DOMAIN sc \ {n} : sc[n] - sc[o] < Top2Margin

\* cid was minted: it has a new number, no assignment, and the record of
\* that number added by this invocation holds only its normalized centroid
MintedFor(cid) ==
    /\ cid \in DOMAIN new_nums
    /\ cid \notin DOMAIN assigned
    /\ \E i \in (Len(loaded) + 1)..Len(persons) :
         /\ persons[i].number = new_nums[cid]
         /\ persons[i].protos = <<Normalize(plan.centroids[cid].v)>>
         /\ persons[i].count = 1

\* the custom thresholds of the loaded records numbered n
CustomThrs(n) ==
    {loaded[i].thr[1] : i \in {j \in 1..Len(loaded) : loaded[j].number = n /\ loaded[j].thr # None}}

\* C1: margin law.  A candidate whose top identity scores at least T but leads
\* the runner-up identity by less than M is never assigned; a new identity
\* is minted for it.
C1_MarginLaw ==
    Running =>
        \A cid \in Scored :
            LET sc == LoadedScores(cid)
            IN  \A n \in DOMAIN sc :
                    (IsTop(sc, n) /\ sc[n] >= MatchThr /\ Ambiguous(sc, n)) => MintedFor(cid)

\* a candidate in the case of C1 has been through the loop (scenario C)
C1_Witness ==
    /\ Running
    /\ \E cid \in Scored :
         LET sc == LoadedScores(cid)
         IN  \E n \in DOMAIN sc :
                 /\ IsTop(sc, n)
                 /\ sc[n] >= MatchThr
                 /\ Ambiguous(sc, n)
                 /\ cid \in DOMAIN new_nums

\* C2: the per-identity threshold is a floor.  Every accepted match scores at
\* least T and at least every custom threshold of the winning identity; a
\* candidate whose top identity has a custom threshold above its score, or
\* scores below T, is minted.
C2_ThresholdFloor ==
    Running =>
        \A cid \in Scored :
            LET sc == LoadedScores(cid)
            IN  /\ cid \in DOMAIN assigned =>
                     /\ IsTop(sc, assigned[cid])
                     /\ sc[assigned[cid]] >= MatchThr
                     /\ \A t \in CustomThrs(assigned[cid]) : sc[assigned[cid]] >= t
                /\ \A n \in DOMAIN sc :
                     (IsTop(sc, n) /\ \E t \in CustomThrs(n) : sc[n] < t) => MintedFor(cid)
                /\ \A n \in DOMAIN sc :
                     (IsTop(sc, n) /\ sc[n] < MatchThr) => MintedFor(cid)

\* one batch holds a candidate minted because T <= s1 < custom threshold,
\* its margin being wide enough, and another minted because
\* custom threshold <= s1 < T
C2_Witness ==
    /\ Running
    /\ \E cid \in Scored :
         LET sc == LoadedScores(cid)
         IN  \E n \in DOMAIN sc :
                 /\ IsTop(sc, n)
                 /\ sc[n] >= MatchThr
                 /\ ~Ambiguous(sc, n)
                 /\ \E t \in CustomThrs(n) : sc[n] < t
                 /\ cid \in DOMAIN new_nums
    /\ \E cid \in Scored :
         LET sc == LoadedScores(cid)
         IN  \E n \in DOMAIN sc :
                 /\ IsTop(sc, n)
                 /\ sc[n] < MatchThr
                 /\ \E t \in CustomThrs(n) : t <= sc[n]
                 /\ cid \in DOMAIN new_nums

\* the registry persisted in person_index.json, where it parses
Persisted == Loads(fs[PersonIndex].text)

HasRegistry == fs[PersonIndex].exists /\ Persisted.ok /\ Persisted.dict

\* C3: number uniqueness.  The records of every persisted registry have
\* pairwise distinct numbers, whatever folders were deleted or created by
\* hand between the invocations.
C3_NumbersUnique ==
    HasRegistry =>
        \A i, j \in 1..Len(Persisted.persons) :
            i # j => Persisted.persons[i].number # Persisted.persons[j].number

\* C4: monotonic numbering.  With no folder deleted by hand, every number
\* minted is greater than every number minted before it.
C4_Monotonic ==
    ~deleted => \A i, j \in 1..Len(minted) : i < j => minted[i] < minted[j]

\* numbers were minted in two invocations, and no folder was deleted
C4_Witness ==
    /\ ~deleted
    /\ Len(minted) >= 2
    /\ Cardinality(DOMAIN new_nums) = 1
    /\ pc = "done"

\* the i-th of the processed candidates that have a centroid
ScoredBefore(cid) == {c \in Scored : c < cid}

\* C5: same-batch matching on cold start.  With no prior registry the first
\* candidate is minted, and the next candidate of the batch, when its
\* similarity to that new person passes the threshold (the margin is met,
\* there being no other person), is assigned to that person.
C5_SameBatchMatch ==
    (Running /\ loaded = <<>>) =>
        \A c1, c2 \in Scored :
            (/\ ScoredBefore(c1) = {}
             /\ ScoredBefore(c2) = {c1}
             /\ Sim(Normalize(plan.centroids[c1].v), Normalize(plan.centroids[c2].v)) >= MatchThr)
            => /\ c1 \in DOMAIN new_nums
               /\ c2 \in DOMAIN assigned
               /\ assigned[c2] = new_nums[c1]

BadCids == {cid \in DOMAIN plan.centroids : ~plan.centroids[cid].ok}

\* C7: malformed candidate isolation.  A malformed centroid does not abort
\* the batch: its candidate gets no assignment, the other candidates are
\* processed and the registry is saved.
C7_MalformedSkipped ==
    (pc # "idle" /\ BadCids # {}) =>
        /\ raised # "ValueError"
        /\ pc = "done" =>
             /\ \A cid \in BadCids : cid \notin DOMAIN assigned \cup DOMAIN new_nums
             /\ \A cid \in DOMAIN plan.centroids \ BadCids :
                   cid \in DOMAIN assigned \cup DOMAIN new_nums
             /\ HasRegistry /\ Persisted.persons = persons

\* person_index.json is absent or its content does not parse
Unreadable == ~fs[PersonIndex].exists \/ ~Persisted.ok

\* C8: fail-open load.  For an absent or unparsable person_index.json,
\* load_person_index raises nothing and returns no persons, and the
\* invocation runs as a cold start: every candidate with a centroid is minted.
C8_FailOpenLoad ==
    (pc \in {"match", "save", "failed"} /\ Unreadable) =>
        /\ raised # "AttributeError"
        /\ loaded = <<>>
        /\ Running => /\ assigned = <<>>
                      /\ \A cid \in Scored : MintedFor(cid)

\* an invocation on an unparsable file has minted a person and is about to save
C8_Witness ==
    /\ pc = "save"
    /\ fs[PersonIndex].exists
    /\ ~Persisted.ok
    /\ DOMAIN new_nums # {}

\* C6: bounded prototypes.  A record never holds more than K_max prototypes,
\* and a call that takes the count past K_max leaves exactly K_max of them
\* (any other call adds one).
C6_BoundedProtos ==
    /\ [](Len(persons[1].protos) <= KMax)
    /\ [][Len(persons'[1].protos) =
            IF Len(persons[1].protos) + 1 > KMax THEN KMax
            ELSE Len(persons[1].protos) + 1]_vars

\* the record has seen more observations than it may keep prototypes
C6_Witness ==
    /\ persons # <<>>
    /\ persons[1].count >= KMax + 2
    /\ Len(persons[1].protos) = KMax

\* the texts a reader of person_index.json may find whole
WholeRegistries == {Dumps(OldRegistry)} \cup {Dumps(RegistryOf(w)) : w \in Writers}

\* C9: atomic save under concurrency.  Whatever the interleaving of the
\* writers' save_person_index calls, the reader finds in person_index.json
\* the whole registry of one writer, or the whole previous one.
C9_ReaderSeesWhole == seen.exists => seen.text \in WholeRegistries

\* between the open of the temporary file and the rename
InWriteSection(w) == wr[w].pc \in {"write", "replace"}

\* C10: lock-guarded registry write.  With filelock available, two writers of
\* the directory's person registry are never in their write section at the
\* same time.
C10_RegistryWriteLocked ==
    FileLock =>
        \A v, w \in Writers :
            (/\ v # w
             /\ wr[v].path = PersonIndex /\ InWriteSection(v)
             /\ wr[w].path = PersonIndex /\ InWriteSection(w))
            => FALSE

\* writer w's rename of person_index.json.tmp over person_index.json succeeds
\* in this step
Renames(w) ==
    /\ wr[w].path = PersonIndex
    /\ wr[w].pc = "replace"
    /\ wr'[w].pc = "done"

\* C11: last write wins, without merge.  Every concurrent save of the person
\* registry completes; each rename leaves in person_index.json exactly the
\* registry of the writer that renamed, and nothing but a rename changes the
\* file, so the final registry is that of the last rename, never a mixture.
C11_LastWriteWins ==
    /\ [](\A w \in Writers : wr[w].path = PersonIndex => wr[w].pc # "failed")
    /\ [][/\ \A w \in Writers : Renames(w) => fs'[PersonIndex].text = wr[w].text
          /\ fs'[PersonIndex].text # fs[PersonIndex].text => \E w \in Writers : Renames(w)]_vars

\* a line is shown for a target in this step
Shown == Len(proc_logs') > Len(proc_logs)

\* the line shown last
LastLine(logs) == logs[Len(logs)]

\* C12: a write failure is fatal.  When the save at the end of
\* match_and_apply fails, the target gets an error line and no success line,
\* and no person count is recorded for it; a success line is shown only with
\* the registry of the invocation persisted.
C12_SaveFailureIsFatal ==
    /\ [](\A i \in 1..Len(proc_logs) :
            proc_logs[i].error = "OSError" =>
                /\ proc_logs[i].kind = "error"
                /\ proc_logs[i].dir \notin DOMAIN idx.group_counts
                /\ \A j \in 1..Len(proc_logs) :
                      proc_logs[j].dir = proc_logs[i].dir => proc_logs[j].kind # "success")
    /\ [][(Shown /\ raised = "OSError") =>
              /\ LastLine(proc_logs').kind = "error"
              /\ idx'.group_counts = idx.group_counts]_vars
    /\ [][(Shown /\ LastLine(proc_logs').kind = "success") =>
              /\ HasRegistry
              /\ Persisted.persons = persons
              /\ idx'.group_counts[queue[gk]] = Len(persons)]_vars

\* a run is over in which the save of one target failed and another
\* target succeeded
C12_Witness ==
    /\ rpc = "finished"
    /\ \E i \in 1..Len(proc_logs) : proc_logs[i].error = "OSError"
    /\ \E i \in 1..Len(proc_logs) : proc_logs[i].kind = "success"

\* the turn of the loop for a target ends in this step
TurnEnds == rpc = "apply" /\ rpc' # "apply"

\* how far the handler has got: the target, then the stage of its turn
Progress ==
    LET stage == CASE rpc = "apply" /\ pc = "idle" -> 1
                   [] rpc = "apply" /\ pc = "match" -> 2
                   [] rpc = "apply" /\ pc = "save" -> 3
                   [] rpc = "apply" /\ pc \in {"done", "failed"} -> 4
                   [] rpc = "finished" -> 5
                   [] OTHER -> 0
    IN  100 * gk + 10 * stage + (IF rpc = "apply" /\ pc = "match" THEN k ELSE 0)

\* C13: per-directory failure isolation.  A failure of build_plan or of
\* match_and_apply ends the turn of its target with one error line for that
\* target, and the loop goes on to the next target; the lines are one per
\* target, in order; every step takes the handler further, and it ends with
\* every target reported, the global index saved and the queue cleared.
C13_FailureIsolation ==
    /\ [](rpc \in {"idle", "plan", "apply", "finished"})
    /\ [][Progress' > Progress]_vars
    /\ [](\A i \in 1..Len(proc_logs) : proc_logs[i].dir = i)
    /\ [][(TurnEnds /\ pc = "failed") =>
              /\ proc_logs' = Append(proc_logs, LogLine(queue[gk], "error", raised))
              /\ idx' = idx
              /\ gk' = gk + 1
              /\ rpc' = "plan"]_vars
    /\ [][rpc' = "finished" =>
              /\ Len(proc_logs') = Len(queue)
              /\ idx'.saved
              /\ fs'[GlobalIndex] = FileOf(IndexText(idx.group_counts))
              /\ queue' = <<>>]_vars

\* a run is over in which the first target failed and the second succeeded
C13_Witness ==
    /\ rpc = "finished"
    /\ Len(proc_logs) >= 2
    /\ proc_logs[1].kind = "error"
    /\ proc_logs[2].kind = "success"
    /\ 2 \in DOMAIN idx.group_counts

C15_RoundTrip ==
    pc = "done" =>
        LET ld == LoadPersonIndex(fs)
        IN  /\ HasRegistry
            /\ Persisted.persons = persons
            /\ ~ld.raised
            /\ ld.persons = persons
            /\ ~ld.changed
            /\ ld.files = fs
            /\ SavePersonIndex(fs, ld.persons) = fs

\* a saved registry holds a record loaded from a file, updated by a match,
\* and a record minted by the invocation
C15_Witness ==
    /\ pc = "done"
    /\ assigned # <<>>
    /\ new_nums # <<>>
    /\ \E i \in 1..Len(loaded) : persons[i].count > loaded[i].count

\* C16: records are never deleted and counts never decrease.  Whatever step
\* changes a person_index.json that holds a registry, the file still holds a
\* registry, every record is still there under its number, and no count is
\* lower than it was.
C16_NeverDeleted ==
    [][HasRegistry =>
          /\ HasRegistry'
          /\ Len(Persisted'.persons) >= Len(Persisted.persons)
          /\ \A i \in 1..Len(Persisted.persons) :
                /\ Persisted'.persons[i].number = Persisted.persons[i].number
                /\ "count" \in DOMAIN Persisted.persons[i] =>
                      Persisted'.persons[i].count >= Persisted.persons[i].count]_vars

\* an invocation has saved a registry in which a loaded record has a higher
\* count than on load and which holds one record more
C16_Witness ==
    /\ pc = "done"
    /\ HasRegistry
    /\ loaded # <<>>
    /\ Len(Persisted.persons) > Len(loaded)
    /\ \E i \in 1..Len(loaded) : Persisted.persons[i].count > loaded[i].count

\* the read of load_person_index and the writes of its migration and of the
\* final save
ReadFirst == Access("read", 0)
WriteFirst == Access("write", 0)
WriteLast == Access("write", Len(plan.eligible))

\* person_index.json holds a record that lacks one of the four fields
Migrates == HasRegistry /\ \E i \in 1..Len(Persisted.persons) : NeedsMigration(Persisted.persons[i])

\* match_and_apply is entered in this step
Enters == pc # "match" /\ pc' = "match"

\* C17 as stated: the registry file is read once, before the first candidate,
\* and written once, after the last, with no other access.
C17_ReadOnceWriteOnce ==
    /\ pc \in {"match", "save"} => io = <<ReadFirst>>
    /\ pc = "done" => io = <<ReadFirst, WriteLast>>

\* C17: invocation ordering.  The candidates are matched one by one in the
\* order of eligible; the file is read once before the first of them and
\* saved once after the last; the one other access is the write of the
\* migration, made by load_person_index before the first candidate is
\* matched, exactly when a record on file lacked a field.
C17_Ordering ==
    /\ [](pc \in {"match", "save"} => io \in {<<ReadFirst>>, <<ReadFirst, WriteFirst>>})
    /\ [](pc = "done" => io \in {<<ReadFirst, WriteLast>>, <<ReadFirst, WriteFirst, WriteLast>>})
    /\ [][Enters => (io' = <<ReadFirst, WriteFirst>> <=> Migrates)]_vars
    /\ [][fs'[PersonIndex] # fs[PersonIndex] => io'[Len(io')].op = "write"]_vars
    /\ [][(pc = "match" /\ k' # k) =>
              /\ k' = k + 1
              /\ (DOMAIN assigned' \cup DOMAIN new_nums')
                    \subseteq (DOMAIN assigned \cup DOMAIN new_nums \cup {plan.eligible[k]})]_vars

\* an invocation that matched two candidates is over, with a migration
\* write before the first and the save after the second
C17_Witness ==
    /\ pc = "done"
    /\ Len(plan.eligible) = 2
    /\ io = <<ReadFirst, WriteFirst, WriteLast>>
    /\ Cardinality(DOMAIN assigned \cup DOMAIN new_nums) = 2

\* the ancestors of the task that ref names, following parent n times at most
RECURSIVE Ancestors(_, _, _)
Ancestors(table, ref, n) ==
    IF ref = None \/ n = 0 THEN {}
    ELSE {ref[1]} \cup Ancestors(table, table[ref[1]].parent, n - 1)

Acyclic(table) ==
    \A t \in DOMAIN table : t \notin Ancestors(table, table[t].parent, Len(table))

CycleErrors ==
    {"Parent hierarchy contains a cycle.", "Cannot set task as its own parent.",
     "Task cannot be its own parent.", "Cannot set task as its own ancestor."}

\* C18: after any sequence of creations and updates through Task.save() or
\* TaskSerializer no task is its own parent or its own ancestor and every
\* parent is a row of the table; the table changes only with an operation
\* that is accepted, and an operation that is rejected, with one of the
\* errors of the hierarchy or another, leaves the table as it was.
C18_HierarchyAcyclic ==
    /\ [](/\ Acyclic(tasks)
          /\ \A t \in DOMAIN tasks :
                tasks[t].parent # None => tasks[t].parent[1] \in DOMAIN tasks \ {t})
    /\ [][tasks' # tasks => resp'.op \in {"save", "api"} /\ resp'.ok]_vars
    /\ [][(resp' # None /\ ~resp'.ok) => (tasks' = tasks /\ resp'.error # "")]_vars

\* a chain of three tasks stands, and the answer is the rejection of a parent
\* that is the task itself or one of its descendants
C18_Witness ==
    /\ resp # None
    /\ ~resp.ok
    /\ resp.error \in CycleErrors
    /\ \E t \in DOMAIN tasks : Cardinality(Ancestors(tasks, tasks[t].parent, Len(tasks))) = 2

\* the tasks a sequence of ids names
Returned(data) == {data[i] : i \in DOMAIN data}

\* C19: what get_critical_tasks() returns is exactly the tasks whose
\* is_critical is true, which are the tasks of status new with at least one
\* direct subtask of status in_progress, each of them once.
C19_CriticalExact ==
    (resp # None /\ resp.op = "critical") =>
        /\ Returned(resp.data) = {t \in DOMAIN tasks : IsCritical(tasks, t)}
        /\ Returned(resp.data) =
               {t \in DOMAIN tasks :
                   /\ tasks[t].status = Status_NEW
                   /\ \E c \in DOMAIN tasks :
                         tasks[c].parent = <<t>> /\ tasks[c].status = Status_IN_PROGRESS}
        /\ \A i, j \in DOMAIN resp.data : resp.data[i] = resp.data[j] => i = j

\* the answer names a task that has two subtasks in progress, while another
\* task of the table is left out
C19_Witness ==
    /\ resp # None
    /\ resp.op = "critical"
    /\ \E t \in Returned(resp.data) :
          Cardinality({c \in Subtasks(tasks, t) : tasks[c].status = Status_IN_PROGRESS}) = 2
    /\ Returned(resp.data) # DOMAIN tasks

\* the tasks of employee e whose status is one of the active ones
ActiveTasksOf(e) ==
    {t \in DOMAIN tasks :
        tasks[t].assignee = <<e>> /\ tasks[t].status \in {Status_NEW, Status_IN_PROGRESS}}

\* C20: in the answer of the workload endpoint the active_tasks_count of
\* every employee is the number of the employee's tasks of status new or
\* in_progress, and the employees come in descending order of that count.
C20_WorkloadCounts ==
    (resp # None /\ resp.op = "workload") =>
        /\ \A i \in DOMAIN resp.data :
              resp.data[i].active_tasks_count =
                  Cardinality(ActiveTasksOf(resp.data[i].employee_id))
        /\ \A i, j \in DOMAIN resp.data :
              i < j => resp.data[i].active_tasks_count >= resp.data[j].active_tasks_count

\* one iteration of the loop over eligible, on a candidate that has a centroid
LoopStep == pc = "match" /\ k' = k + 1 /\ plan.eligible[k] \in DOMAIN centroids_norm

\* the candidate of the iteration, and its normalized centroid
StepCid == plan.eligible[k]
StepVec == centroids_norm[StepCid]

\* C21: minting.  An iteration that does not assign its candidate appends
\* exactly one record, numbered cur_max + 1, with the normalized centroid as
\* only prototype and as running average, count 1 and no threshold, and
\* raises cur_max by one; with no identity to match against every candidate
\* is minted.  An empty registry in a directory without numbered folders and
\* one candidate give the single identity 1.
C21_Minting ==
    /\ [][(LoopStep /\ StepCid \notin DOMAIN assigned') =>
             /\ persons' = Append(persons,
                                  [number |-> cur_max + 1, protos |-> <<StepVec>>,
                                   ema |-> StepVec, count |-> 1, thr |-> None])
             /\ cur_max' = cur_max + 1
             /\ StepCid \in DOMAIN new_nums'
             /\ new_nums'[StepCid] = cur_max + 1]_vars
    /\ [][(LoopStep /\ rows = <<>>) => StepCid \notin DOMAIN assigned']_vars
    /\ []((pc = "done" /\ loaded = <<>> /\ Len(plan.eligible) = 1
             /\ 1 \in DOMAIN plan.centroids /\ cur_max = 1) =>
           persons = <<[number |-> 1, protos |-> <<Normalize(plan.centroids[1].v)>>,
                        ema |-> Normalize(plan.centroids[1].v), count |-> 1, thr |-> None]>>)

\* a candidate scored against a registry with prototypes was not accepted
\* and got a number past a folder number above 1
C21_Witness ==
    /\ Running
    /\ rows # <<>>
    /\ \E cid \in Scored : cid \in DOMAIN new_nums /\ new_nums[cid] > 2
    /\ Len(persons) = Len(loaded) + 1

\* the best score of record p, as loaded, against c; -100 without a row
RecordScore(p, c) ==
    LET own == PersonRows(p)
    IN  IF own = <<>> THEN -100 ELSE MaxOf({Sim(own[i].v, c) : i \in 1..Len(own)})

\* the candidate of the iteration satisfies s1 >= thr_use and s1 - s2 >= M
StepAccepted ==
    /\ rows # <<>>
    /\ LET top == TopTwo(rows, StepVec)
       IN  /\ top.s1 >= ThrUse(MatchThr, per_thr, top.best_num)
           /\ top.s1 - top.s2 >= Top2Margin

\* the records that win the iteration: those of the registry as loaded that
\* bear the winning number and reach the top score
StepWinners ==
    LET top == TopTwo(rows, StepVec)
    IN  {i \in 1..Len(loaded) :
            loaded[i].number = top.best_num /\ RecordScore(loaded[i], StepVec) = top.s1}

\* record i of persons takes the centroid c: count + 1, c among the
\* prototypes or dropped by the reduction to KMax, number and thr kept
Gains(i, c) ==
    /\ persons'[i].count = persons[i].count + 1
    /\ persons'[i].number = persons[i].number
    /\ persons'[i].thr = persons[i].thr
    /\ Len(persons'[i].protos) <= KMax
    /\ \/ InSeq(c, persons'[i].protos)
       \/ Len(persons[i].protos) >= KMax
    /\ Len(persons[i].protos) < KMax => persons'[i].protos = Append(persons[i].protos, c)

\* C22: accepted match, effect and frame.  An iteration whose candidate
\* satisfies s1 >= thr_use and s1 - s2 >= M assigns it to the winning
\* number; the winning record gains the centroid and one observation, its
\* number and threshold stay, every other record stays as it was, and no
\* record and no number is added.
C22_AcceptedEffect ==
    [][(LoopStep /\ StepAccepted) =>
         LET top == TopTwo(rows, StepVec)
         IN  /\ StepCid \in DOMAIN assigned'
             /\ assigned'[StepCid] = top.best_num
             /\ StepCid \notin DOMAIN new_nums'
             /\ new_nums' = new_nums
             /\ cur_max' = cur_max
             /\ Len(persons') = Len(persons)
             /\ \E i \in StepWinners :
                   /\ Gains(i, StepVec)
                   /\ \A j \in 1..Len(persons) \ {i} : persons'[j] = persons[j]]_vars

\* the records of the file the i-th load found
FoundBy(i) == Loads(loads[i].before.text).persons

\* record new is record old with its missing fields defaulted: the legacy
\* vector wrapped, the running average the first prototype or absent, the
\* count the number of prototypes and at least 1, no custom threshold
Defaulted(old, new) ==
    /\ DOMAIN new = (DOMAIN old \ (IF "protos" \in DOMAIN old THEN {} ELSE {"proto"}))
                        \cup {"protos", "ema", "count", "thr"}
    /\ new.number = old.number
    /\ new.protos = IF "protos" \in DOMAIN old THEN old.protos
                    ELSE IF "proto" \in DOMAIN old THEN <<old.proto>> ELSE <<>>
    /\ new.ema = IF "ema" \in DOMAIN old THEN old.ema
                 ELSE IF new.protos # <<>> THEN new.protos[1] ELSE None
    /\ new.count = IF "count" \in DOMAIN old THEN old.count
                   ELSE IF Len(new.protos) >= 1 THEN Len(new.protos) ELSE 1
    /\ new.thr = IF "thr" \in DOMAIN old THEN old.thr ELSE None

\* a field of record old is missing
Lacks(old) == \E key \in {"protos", "ema", "count", "thr"} : key \notin DOMAIN old

NoPrototypes == \A i \in 1..Len(loaded) : loaded[i].protos = <<>>

\* C24: zero-prototype rule.  When no record of the registry has a
\* prototype, every processed candidate that has a centroid is minted and
\* none is assigned, whatever the running averages of the records.
C24_ZeroPrototypes ==
    (Running /\ NoPrototypes) =>
        /\ assigned = <<>>
        /\ \A cid \in Scored : cid \in DOMAIN new_nums

\* the tasks reached from the tasks of S by up to n dependencies of rel
RECURSIVE Reach(_, _, _)
Reach(rel, S, n) ==
    IF n = 0 THEN S
    ELSE Reach(rel, S \cup {d[2] : d \in {e \in rel : e[1] \in S}}, n - 1)

\* C25: the dependency graph is acyclic.  After any sequence of
\* TaskDependency.save() no task is reached from its own successors along
\* the dependencies, so a dependency that would close a cycle was rejected.
C25_DependenciesAcyclic ==
    \A t \in DOMAIN tasks :
        t \notin Reach(deps, {d[2] : d \in {e \in deps : e[1] = t}}, Len(tasks))

\* task t has a direct subtask in progress
HasSubtaskInProgress(t) == \E c \in Subtasks(tasks, t) : tasks[c].status = Status_IN_PROGRESS

\* C26: DONE is blocked by subtasks in progress.  An update through
\* TaskSerializer that sets the status of a task to done while the task has
\* a direct subtask in progress is rejected with a validation error and
\* the table stays as it was; a status that such an update did set to done
\* belongs to a task without a subtask in progress.
C26_DoneBlocked ==
    /\ [][\A t \in DOMAIN tasks :
            (ApiSetStatus(t, Status_DONE) /\ HasSubtaskInProgress(t)) =>
                /\ ~resp'.ok
                /\ resp'.error = "Cannot mark task as DONE while it has subtasks in progress."
                /\ tasks' = tasks]_vars
    /\ [][(resp' # None /\ resp'.op = "status") =>
            \A t \in DOMAIN tasks :
                (tasks'[t].status = Status_DONE /\ tasks[t].status # Status_DONE) =>
                    ~HasSubtaskInProgress(t)]_vars

\* the update of a new task with a subtask in progress to done was rejected
C26_Witness ==
    /\ resp # None
    /\ resp.op = "status"
    /\ resp.error = "Cannot mark task as DONE while it has subtasks in progress."
    /\ \E t \in DOMAIN tasks : tasks[t].status = Status_NEW /\ HasSubtaskInProgress(t)

\* C27: employees are read-only for non-managers.  Through EmployeeViewSet
\* an authenticated user outside the group manager lists and retrieves the
\* active employees, and the table of employees changes only at the request
\* of a manager.
C27_EmployeesReadOnly ==
    /\ [][employees' # employees => InManagerGroup(resp'.user)]_vars
    /\ [][(resp' # None /\ resp'.op = "list" /\ IsAuthenticated(resp'.user)) => resp'.ok]_vars

\* the tasks user may access: all for a manager, for another the tasks
\* assigned to the user's employee profile
MayAccess(user, t, table) ==
    \/ InManagerGroup(user)
    \/ t \in DOMAIN table /\ table[t].assignee # None /\ table[t].assignee = EmployeeProfile(user)

\* C28: task access is limited to owners and managers.  No request to
\* TaskViewSet returns or changes a task to a user who is neither a manager
\* nor its assignee; a task without assignee goes to managers only.
C28_TaskAccessLimited ==
    [][(resp' # None /\ resp'.ok) =>
         \A t \in resp'.data : MayAccess(resp'.user, t, tasks')]_vars

\* the users that have an employee profile
WithProfile == {employees[e].user : e \in DOMAIN employees}

\* C29: registration is all-or-nothing.  Every user has an employee profile
\* and every profile a user; an answer 201 comes with one new user and its
\* profile, an answer 400 with the users and the employees as they were;
\* a request without username or password, or with a username in use, is
\* answered 400.
C29_RegistrationAllOrNothing ==
    /\ [](users = WithProfile)
    /\ [][(resp'.status = 201) =>
             /\ resp'.user \notin users
             /\ users' = users \cup {resp'.user}
             /\ \E e \in DOMAIN employees' \ DOMAIN employees :
                   /\ employees'[e].user = resp'.user
                   /\ DOMAIN employees' = DOMAIN employees \cup {e}
             /\ \A e \in DOMAIN employees : employees'[e] = employees[e]]_vars
    /\ [][(resp'.status = 400) => (users' = users /\ employees' = employees)]_vars
    /\ [][(resp'.user = "" \/ resp'.user \in users) => resp'.status = 400]_vars

\* a registration with a free username was answered 400, after another
\* had succeeded
C29_Witness ==
    /\ resp # None
    /\ resp.status = 400
    /\ resp.user # ""
    /\ resp.user \notin users
    /\ users # {}

\* C30: no source is deleted without a copy.  Every source image an
\* invocation unlinks is an image that invocation copied into a destination
\* folder.
C30_NoDeleteWithoutCopy ==
    [][(sources \ sources') \subseteq copied']_vars

====
